---- MODULE Spec2Model ----
(***************************************************************************)
(* Calendar agent: the tool handlers (schedule, get, list, update, delete) *)
(* over the Google Calendar adapter, the time parser, the conflict check   *)
(* and the agent's tool-call loop.                                         *)
(*                                                                         *)
(* Text is modelled as sequences of tokens (a token is a short string), so *)
(* that "contains '@'", strip, split and join are computed.  An instant is *)
(* a number of minutes since 1970-01-01 00:00; the formatted date, time    *)
(* and ISO strings are records of their printed fields.                    *)
(***************************************************************************)
EXTENDS Integers, Sequences, FiniteSets, TLC

VARIABLES
    remote,     \* the provider's event store: a sequence of events, in insertion order
    now,        \* datetime.now(), in minutes since the epoch
    svc,        \* the adapter singleton: "authenticated" or "unauthenticated"
    nextId,     \* number of ids handed out so far (uuid4 / provider event ids)
    last,       \* the last handler call: its arguments, its result, the calls it made
    sched,      \* the meeting returned by the latest successful schedule_meeting, or NoMeeting
    pc,         \* agent loop: "idle", "calling" (the model), "awaiting" (its parts), "done"
    response,   \* agent loop: the parts of the model's current response
    toolsRun,   \* agent loop: tools executed in the current turn
    fed,        \* agent loop: the tool response last sent back to the model
    turnOut,    \* agent loop: the text run() returned (empty while the turn runs)
    agentInstance,  \* the module global _agent_instance: None or a reference into chats
    chats,          \* the CalendarAgent objects created so far: each one's chat history
    sessionState    \* st.session_state of each browser session: its agent, its messages

vars == <<remote, now, svc, nextId, last, sched, pc, response, toolsRun, fed, turnOut,
          agentInstance, chats, sessionState>>

----------------------------------------------------------------------------
(* Optional arguments: Python's None against a supplied value. *)

None == [some |-> FALSE]

Some(v) == [some |-> TRUE, v |-> v]

NoId == "None"

----------------------------------------------------------------------------
(* Calendar arithmetic of datetime (proleptic Gregorian). *)

MinPerHour == 60

MinPerDay == 1440

IsLeap(y) == (y % 4 = 0 /\ y % 100 # 0) \/ y % 400 = 0

DaysInMonth(y, m) ==
    IF m = 2 THEN (IF IsLeap(y) THEN 29 ELSE 28)
    ELSE IF m \in {4, 6, 9, 11} THEN 30 ELSE 31

\* days since 1970-01-01 of the civil date y-m-d
DaysFromCivil(y, m, d) ==
    LET yy  == IF m <= 2 THEN y - 1 ELSE y
        era == yy \div 400
        yoe == yy - era * 400
        mp  == IF m > 2 THEN m - 3 ELSE m + 9
        doy == (153 * mp + 2) \div 5 + d - 1
        doe == yoe * 365 + yoe \div 4 - yoe \div 100 + doy
    IN  era * 146097 + doe - 719468

\* the civil date of a day number
CivilFromDays(z) ==
    LET zz  == z + 719468
        era == zz \div 146097
        doe == zz - era * 146097
        yoe == (doe - doe \div 1460 + doe \div 36524 - doe \div 146096) \div 365
        doy == doe - (365 * yoe + yoe \div 4 - yoe \div 100)
        mp  == (5 * doy + 2) \div 153
        d   == doy - (153 * mp + 2) \div 5 + 1
        m   == IF mp < 10 THEN mp + 3 ELSE mp - 9
        y   == yoe + era * 400 + (IF m <= 2 THEN 1 ELSE 0)
    IN  [y |-> y, m |-> m, d |-> d]

\* datetime(y, m, d, hh, mi) as an instant
Instant(y, m, d, hh, mi) == DaysFromCivil(y, m, d) * MinPerDay + hh * MinPerHour + mi

\* dt.strftime("%Y-%m-%d")
StrfDate(dt) == CivilFromDays(dt \div MinPerDay)

\* dt.strftime("%H:%M")
StrfTime(dt) == [h |-> (dt % MinPerDay) \div MinPerHour, m |-> dt % MinPerHour]

\* dt.replace(hour=0, minute=0, second=0, microsecond=0)
DayStart(dt) == dt - (dt % MinPerDay)

\* datetime.strptime(f"{date} {time}", "%Y-%m-%d %H:%M") on the formatted strings;
\* NoInstant stands for the ValueError
NoInstant == 0 - 1

StrpDateTime(date, time) ==
    IF /\ date.y \in 1..9999 /\ date.m \in 1..12 /\ date.d \in 1..DaysInMonth(date.y, date.m)
       /\ time.h \in 0..23 /\ time.m \in 0..59
    THEN Instant(date.y, date.m, date.d, time.h, time.m)
    ELSE NoInstant

----------------------------------------------------------------------------
(* Time parser (utils/helpers.py). *)

\* A date string of the shape digits-separator-digits-separator-digits is the
\* record of its three numerals (value v, width w in digits) and two separators;
\* any other text has k = "text", the empty string k = "empty".
DateStr(av, aw, s1, bv, bw, s2, cv, cw) ==
    [k |-> "nsnsn", a |-> [v |-> av, w |-> aw], s1 |-> s1,
     b |-> [v |-> bv, w |-> bw], s2 |-> s2, c |-> [v |-> cv, w |-> cw]]

EmptyText == [k |-> "empty"]

OtherText == [k |-> "text"]

NoDate == 0 - 1

\* one strptime attempt: the year numeral yr (%Y: four digits), month mo and day dy
\* (%m, %d: one or two digits), both separators equal to sep
TryFormat(s, sep, yr, mo, dy) ==
    IF /\ s.s1 = sep /\ s.s2 = sep
       /\ yr.w = 4 /\ yr.v >= 1
       /\ mo.w \in 1..2 /\ mo.v \in 1..12
       /\ dy.w \in 1..2 /\ dy.v >= 1 /\ dy.v <= DaysInMonth(yr.v, mo.v)
    THEN Instant(yr.v, mo.v, dy.v, 0, 0)
    ELSE NoDate

\* a parser that reads year-month-day around any separator
parse_dateMutAnySeparator(s) ==
    IF s.k # "nsnsn" THEN NoDate ELSE TryFormat(s, s.s1, s.a, s.b, s.c)

\* the ordered list of formats: the first that parses wins
parse_date(s) ==
    IF s.k # "nsnsn" THEN NoDate
    ELSE LET f1 == TryFormat(s, "-", s.a, s.b, s.c)
             f2 == TryFormat(s, "/", s.a, s.b, s.c)
             f3 == TryFormat(s, "-", s.c, s.b, s.a)
             f4 == TryFormat(s, "/", s.c, s.b, s.a)
         IN  IF f1 # NoDate THEN f1
             ELSE IF f2 # NoDate THEN f2
             ELSE IF f3 # NoDate THEN f3
             ELSE f4

\* A time string: hour numeral, optional colon, optional minute numeral (w = 0 when
\* absent), optional AM/PM suffix (period = "" when absent); k = "text" otherwise.
TimeStr(hv, hw, colon, mv, mw, period) ==
    [k |-> "time", h |-> [v |-> hv, w |-> hw], colon |-> colon,
     m |-> [v |-> mv, w |-> mw], period |-> period]

NoTime == [h |-> 0 - 1, m |-> 0 - 1]

parse_time(s) ==
    IF s.k # "time" THEN NoTime
    ELSE
    LET is24 == s.h.w \in 1..2 /\ s.colon /\ s.m.w = 2 /\ s.period = ""
        is12 == /\ s.h.w \in 1..2
                /\ s.m.w \in {0, 2}
                /\ s.period \in {"AM", "PM", "am", "pm"}
        up   == IF s.period \in {"PM", "pm"} THEN "PM" ELSE "AM"
        min12 == IF s.m.w = 2 THEN s.m.v ELSE 0
        hr12 == IF up = "PM" /\ s.h.v # 12 THEN s.h.v + 12
                ELSE IF up = "AM" /\ s.h.v = 12 THEN 0
                ELSE s.h.v
    IN  IF is24 /\ s.h.v \in 0..23 /\ s.m.v \in 0..59
        THEN [h |-> s.h.v, m |-> s.m.v]
        ELSE IF is12 /\ hr12 \in 0..23 /\ min12 \in 0..59
        THEN [h |-> hr12, m |-> min12]
        ELSE NoTime

\* the comparison admitting the current instant itself
later_thanMutNotBefore(dt, clock) == IF dt = NoInstant THEN FALSE ELSE dt >= clock

later_than(dt, clock) == IF dt = NoInstant THEN FALSE ELSE dt > clock

is_future_datetime(date, time, clock) == later_than(StrpDateTime(date, time), clock)

----------------------------------------------------------------------------
(* Text helpers: Python's str operations on token sequences. *)

SP == " "

Contains(s, tok) == \E i \in 1..Len(s) : s[i] = tok

RECURSIVE LStrip(_)
LStrip(s) == IF s # <<>> /\ Head(s) \in {SP, "\n\n"} THEN LStrip(Tail(s)) ELSE s

RECURSIVE RStrip(_)
RStrip(s) ==
    IF s # <<>> /\ s[Len(s)] \in {SP, "\n\n"} THEN RStrip(SubSeq(s, 1, Len(s) - 1)) ELSE s

\* s.strip()
Strip(s) == RStrip(LStrip(s))

\* s.split(sep)[0]
RECURSIVE SplitHead(_, _)
SplitHead(s, sep) ==
    IF s = <<>> \/ Head(s) = sep THEN <<>> ELSE <<Head(s)>> \o SplitHead(Tail(s), sep)

\* sep.join(items), items a sequence of texts
RECURSIVE Join(_, _)
Join(items, sep) ==
    IF items = <<>> THEN <<>>
    ELSE IF Len(items) = 1 THEN items[1]
    ELSE items[1] \o <<sep>> \o Join(Tail(items), sep)

\* [F(x) for x in s]; [x for x in s if P(x)] is SelectSeq(s, P)
Map(s, F(_)) == [i \in 1..Len(s) |-> F(s[i])]

\* s.lower(), token by token
Lower(s) ==
    Map(s, LAMBDA t : IF t \in {"Alice", "ALICE"} THEN "alice"
                      ELSE IF t = "Team" THEN "team"
                      ELSE IF t = "Bob" THEN "bob"
                      ELSE IF t = "Standup" THEN "standup"
                      ELSE IF t = "Review" THEN "review"
                      ELSE IF t = "Notes" THEN "notes"
                      ELSE t)

\* a in b, for texts
IsSubstring(a, b) ==
    \E i \in 0..(Len(b) - Len(a)) : SubSeq(b, i + 1, i + Len(a)) = a

----------------------------------------------------------------------------
(* The remote provider (Google Calendar API, external): a store of event   *)
(* bodies.  insert assigns the id; update replaces the whole body at an id *)
(* (404 when it is gone); delete removes it (410 when it is gone); list    *)
(* returns the events that end after timeMin and start before timeMax, by  *)
(* start time, at most maxResults of them.  The calendar's zone is UTC.    *)

MaxResults == 100

DurationMin == 60

WindowDays == 30

\* dt.isoformat() with its zone suffix
IsoFields(c, t, tz) == [y |-> c.y, m |-> c.m, d |-> c.d, hh |-> t.h, mi |-> t.m, tz |-> tz]

IsoFormat(dt, tz) == IsoFields(StrfDate(dt), StrfTime(dt), tz)

\* the instant an RFC 3339 string denotes (every zone used here is UTC)
IsoInstant(iso) == Instant(iso.y, iso.m, iso.d, iso.hh, iso.mi)

RECURSIVE InsertByStart(_, _)
InsertByStart(sorted, e) ==
    IF sorted = <<>> THEN <<e>>
    ELSE IF IsoInstant(e.start) < IsoInstant(Head(sorted).start)
    THEN <<e>> \o sorted
    ELSE <<Head(sorted)>> \o InsertByStart(Tail(sorted), e)

RECURSIVE SortByStart(_)
SortByStart(s) ==
    IF s = <<>> THEN <<>>
    ELSE InsertByStart(SortByStart(SubSeq(s, 1, Len(s) - 1)), s[Len(s)])

Take(s, n) == SubSeq(s, 1, IF Len(s) < n THEN Len(s) ELSE n)

ProviderList(store, timeMin, timeMax, maxResults) ==
    LET inWindow(e) == /\ IsoInstant(e.endt) > IsoInstant(timeMin)
                       /\ IsoInstant(e.start) < IsoInstant(timeMax)
    IN  Take(SortByStart(SelectSeq(store, inWindow)), maxResults)

HasEvent(store, id) == \E i \in 1..Len(store) : store[i].id = id

ProviderInsert(store, body, id) == Append(store, [body EXCEPT !.id = id])

ProviderUpdate(store, body, id) ==
    [i \in 1..Len(store) |-> IF store[i].id = id THEN [body EXCEPT !.id = id] ELSE store[i]]

ProviderDelete(store, id) == SelectSeq(store, LAMBDA e : e.id # id)

\* what one provider request may do: answer, fail with an HttpError (a request for
\* an event the provider does not hold is one), or fail with another exception (no
\* route to the server, a refused token refresh)
Outcomes == {"ok", "http", "exc"}

\* a request as it went over the wire, with how the provider answered it
Req(kind, o) == [req |-> kind, o |-> o]

----------------------------------------------------------------------------
(* Calendar client adapter (integrations/google_calendar_service.py). *)

\* a test that looks at the configuration only, not at the service object
is_enabledMutConfigOnly(state) == TRUE

is_enabled(state) == state = "authenticated"

\* an address test that looks for the '@' only
IsEmailMutAtOnly(p) == Contains(p, "@")

IsEmail(p) == Contains(p, "@") /\ Contains(p, ".")

\* the two lists built by the participants loop
Attendees(participants) ==
    Map(SelectSeq(Map(SelectSeq(participants, LAMBDA p : p # <<>>), Strip), IsEmail),
        LAMBDA p : [email |-> p])

NonEmailParticipants(participants) ==
    SelectSeq(Map(SelectSeq(participants, LAMBDA p : p # <<>>), Strip), LAMBDA p : ~IsEmail(p))

ParticipantsText(non_email) == <<"\n\n", "Participants: ">> \o Join(non_email, ", ")

DescriptionWith(description, non_email) ==
    IF non_email = <<>> THEN description
    ELSE IF description # <<>> THEN description \o ParticipantsText(non_email)
    ELSE Strip(ParticipantsText(non_email))

EventDescription(description, participants) ==
    DescriptionWith(description, NonEmailParticipants(participants))

\* the event body, or NoEvent when strptime raises
NoEvent == [id |-> "ValueError"]

event_body(meeting, start_datetime) ==
    IF start_datetime = NoInstant THEN NoEvent
    ELSE [id |-> NoId,
          summary |-> meeting.title,
          description |-> EventDescription(meeting.description, meeting.participants),
          start |-> IsoFormat(start_datetime, "+00:00"),
          endt |-> IsoFormat(start_datetime + DurationMin, "+00:00"),
          attendees |-> Attendees(meeting.participants),
          local_id |-> meeting.id]

_convert_to_google_event(meeting) ==
    event_body(meeting, StrpDateTime(meeting.date, meeting.time))

AttendeeName(attendee) == SplitHead(attendee.email, "@")

_convert_from_google_event(event) ==
    [id |-> IF event.local_id # "" THEN event.local_id ELSE event.id,
     title |-> event.summary,
     date |-> [y |-> event.start.y, m |-> event.start.m, d |-> event.start.d],
     time |-> [h |-> event.start.hh, m |-> event.start.mi],
     participants |-> Map(event.attendees, AttendeeName),
     description |-> event.description,
     google_event_id |-> event.id]

\* Each adapter call answers [val, raised, store, wire]: the value returned, whether an
\* exception escaped instead, the provider's store afterwards, the requests issued.
\* Only HttpError is caught: a ValueError of the conversion and any other failure of
\* the request escape.
\* a create that sends the insert again when the provider refuses it
create_event_sendMutRetries(state, store, event, newId, o) ==
    IF ~is_enabled(state)
    THEN [val |-> NoId, raised |-> FALSE, store |-> store, wire |-> <<>>]
    ELSE IF event = NoEvent
    THEN [val |-> NoId, raised |-> TRUE, store |-> store, wire |-> <<>>]
    ELSE IF o = "ok"
    THEN [val |-> newId, raised |-> FALSE,
          store |-> ProviderInsert(store, event, newId), wire |-> <<Req("insert", o)>>]
    ELSE IF o = "http"
    THEN [val |-> newId, raised |-> FALSE,
          store |-> ProviderInsert(store, event, newId),
          wire |-> <<Req("insert", o), Req("insert", "ok")>>]
    ELSE [val |-> NoId, raised |-> TRUE, store |-> store, wire |-> <<Req("insert", o)>>]

create_event_send(state, store, event, newId, o) ==
    IF ~is_enabled(state)
    THEN [val |-> NoId, raised |-> FALSE, store |-> store, wire |-> <<>>]
    ELSE IF event = NoEvent
    THEN [val |-> NoId, raised |-> TRUE, store |-> store, wire |-> <<>>]
    ELSE IF o = "ok"
    THEN [val |-> newId, raised |-> FALSE,
          store |-> ProviderInsert(store, event, newId), wire |-> <<Req("insert", o)>>]
    ELSE [val |-> NoId, raised |-> (o = "exc"), store |-> store,
          wire |-> <<Req("insert", o)>>]

create_event(state, store, meeting, newId, o) ==
    create_event_send(state, store, _convert_to_google_event(meeting), newId, o)

update_event_send(state, store, event, google_event_id, o) ==
    IF ~is_enabled(state)
    THEN [val |-> FALSE, raised |-> FALSE, store |-> store, wire |-> <<>>]
    ELSE IF event = NoEvent
    THEN [val |-> FALSE, raised |-> TRUE, store |-> store, wire |-> <<>>]
    ELSE IF o = "ok" /\ HasEvent(store, google_event_id)
    THEN [val |-> TRUE, raised |-> FALSE,
          store |-> ProviderUpdate(store, event, google_event_id),
          wire |-> <<Req("update", o)>>]
    ELSE [val |-> FALSE, raised |-> (o = "exc"), store |-> store,
          wire |-> <<Req("update", IF o = "ok" THEN "http" ELSE o)>>]

update_event(state, store, meeting, google_event_id, o) ==
    update_event_send(state, store, _convert_to_google_event(meeting), google_event_id, o)

delete_event(state, store, google_event_id, o) ==
    IF ~is_enabled(state)
    THEN [val |-> FALSE, raised |-> FALSE, store |-> store, wire |-> <<>>]
    ELSE IF o = "ok" /\ HasEvent(store, google_event_id)
    THEN [val |-> TRUE, raised |-> FALSE,
          store |-> ProviderDelete(store, google_event_id),
          wire |-> <<Req("delete", o)>>]
    ELSE [val |-> FALSE, raised |-> (o = "exc"), store |-> store,
          wire |-> <<Req("delete", IF o = "ok" THEN "http" ELSE o)>>]

get_events(state, store, time_min, time_max, o) ==
    IF ~is_enabled(state)
    THEN [val |-> <<>>, raised |-> FALSE, store |-> store, wire |-> <<>>]
    ELSE IF o = "ok"
    THEN [val |-> Map(ProviderList(store, IsoFormat(time_min, "Z"),
                                   IsoFormat(time_max, "Z"), MaxResults),
                      _convert_from_google_event),
          raised |-> FALSE, store |-> store, wire |-> <<Req("list", o)>>]
    ELSE [val |-> <<>>, raised |-> (o = "exc"), store |-> store, wire |-> <<Req("list", o)>>]

----------------------------------------------------------------------------
(* Tool handlers (mcp_server/handlers.py).  Each handler answers           *)
(* [res, store, calls, wire]: the result envelope, the provider's store    *)
(* afterwards, the adapter methods called and the provider requests made.  *)
(* A handler is written as its steps in order, each taking what the        *)
(* earlier steps computed.                                                 *)

TruthyText(opt) == opt.some /\ opt.v # <<>>

TruthyStr(opt) == opt.some /\ opt.v.k # "empty"

TruthyId(opt) == opt.some /\ opt.v # ""

\* the interval test with closed intervals
OverlapsMutClosed(meeting_datetime, event_datetime) ==
    /\ meeting_datetime <= event_datetime + DurationMin
    /\ meeting_datetime + DurationMin >= event_datetime

\* the interval test of the conflict loop: 60-minute intervals, half-open
Overlaps(meeting_datetime, event_datetime) ==
    /\ meeting_datetime < event_datetime + DurationMin
    /\ meeting_datetime + DurationMin > event_datetime

\* the first event of the loop that returns, or None
RECURSIVE FirstConflict(_, _, _)
FirstConflict(events, meeting_datetime, exclude_event_id) ==
    IF events = <<>> THEN None
    ELSE IF /\ ~(TruthyId(exclude_event_id)
                 /\ Head(events).google_event_id = exclude_event_id.v)
            /\ Overlaps(meeting_datetime, StrpDateTime(Head(events).date, Head(events).time))
    THEN Some(Head(events))
    ELSE FirstConflict(Tail(events), meeting_datetime, exclude_event_id)

\* a check that treats a listing that failed as a conflict
conflict_amongMutFailClosed(got, meeting_datetime, exclude_event_id) ==
    IF got.raised \/ (got.wire # <<>> /\ got.wire[1].o # "ok")
    THEN [val |-> Some([title |-> <<"{unknown}">>]), wire |-> got.wire,
          called |-> <<"get_events">>]
    ELSE [val |-> FirstConflict(got.val, meeting_datetime, exclude_event_id),
          wire |-> got.wire, called |-> <<"get_events">>]

\* the loop over the day's events; an exception of get_events is swallowed
conflict_among(got, meeting_datetime, exclude_event_id) ==
    IF got.raised THEN [val |-> None, wire |-> got.wire, called |-> <<"get_events">>]
    ELSE [val |-> FirstConflict(got.val, meeting_datetime, exclude_event_id),
          wire |-> got.wire, called |-> <<"get_events">>]

conflict_on_day(state, store, meeting_datetime, exclude_event_id, o) ==
    IF meeting_datetime = NoInstant THEN [val |-> None, wire |-> <<>>, called |-> <<>>]
    ELSE conflict_among(get_events(state, store, DayStart(meeting_datetime),
                                   DayStart(meeting_datetime) + MinPerDay, o),
                        meeting_datetime, exclude_event_id)

\* [val, wire, called]: the conflicting meeting (or None), the requests made
_check_time_conflict(state, store, date_str, time_str, exclude_event_id, o) ==
    conflict_on_day(state, store, StrpDateTime(date_str, time_str), exclude_event_id, o)

\* a failure result whose error text is left empty
FailMutEmptyError(error) == [success |-> FALSE, error |-> <<>>]

Fail(error) == [success |-> FALSE, error |-> error]

ConflictError(conflict) ==
    <<"Time conflict with '">> \o conflict.title \o <<"' at ", "{date} {time}">>

Out(res, store, calls, wire) == [res |-> res, store |-> store, calls |-> calls, wire |-> wire]

enable_conflict_detection == TRUE

\* an outcome that reports success whenever create_event did not raise
schedule_createdMutOptimistic(store, meeting, title, chk, made) ==
    IF made.raised
    THEN Out(Fail(<<"Error scheduling meeting: ", "{e}">>), store,
             chk.called \o <<"create_event">>, chk.wire \o made.wire)
    ELSE Out([success |-> TRUE,
              meeting |-> [id |-> meeting.id, title |-> meeting.title,
                           date |-> meeting.date, time |-> meeting.time,
                           participants |-> meeting.participants,
                           description |-> meeting.description,
                           created_at |-> meeting.created_at,
                           google_event_id |-> made.val,
                           synced_to_google |-> TRUE],
              message |-> <<"Successfully scheduled '">> \o title],
             made.store, chk.called \o <<"create_event">>, chk.wire \o made.wire)

\* lines 142-158: the outcome of create_event
schedule_created(store, meeting, title, chk, made) ==
    IF made.raised
    THEN Out(Fail(<<"Error scheduling meeting: ", "{e}">>), store,
             chk.called \o <<"create_event">>, chk.wire \o made.wire)
    ELSE IF made.val # NoId
    THEN Out([success |-> TRUE,
              meeting |-> [id |-> meeting.id, title |-> meeting.title,
                           date |-> meeting.date, time |-> meeting.time,
                           participants |-> meeting.participants,
                           description |-> meeting.description,
                           created_at |-> meeting.created_at,
                           google_event_id |-> made.val,
                           synced_to_google |-> TRUE],
              message |-> <<"Successfully scheduled '">> \o title],
             made.store, chk.called \o <<"create_event">>, chk.wire \o made.wire)
    ELSE Out(Fail(<<"Failed to create event in Google Calendar">>), store,
             chk.called \o <<"create_event">>, chk.wire \o made.wire)

\* lines 122-143: the conflict check's verdict, then the meeting object and create
schedule_checked(state, store, meeting, title, newEventId, oMut, chk) ==
    IF chk.val.some
    THEN Out(Fail(ConflictError(chk.val.v)), store, chk.called, chk.wire)
    ELSE schedule_created(store, meeting, title, chk,
                          create_event(state, store, meeting, newEventId, oMut))

\* lines 115-129: the future check, then the conflict check
schedule_parsed(state, store, clock, title, date_formatted, parsed_time, kept, description, newId, newEventId, oList, oMut) ==
    IF ~is_future_datetime(date_formatted, parsed_time, clock)
    THEN Out(Fail(<<"Cannot schedule meetings in the past">>), store, <<>>, <<>>)
    ELSE schedule_checked(state, store,
                          [id |-> newId, title |-> title, date |-> date_formatted,
                           time |-> parsed_time, participants |-> kept,
                           description |-> description, created_at |-> clock],
                          title, newEventId, oMut,
                          IF enable_conflict_detection
                          THEN _check_time_conflict(state, store, date_formatted, parsed_time,
                                                    None, oList)
                          ELSE [val |-> None, wire |-> <<>>, called |-> <<>>])

\* the two parses with the time looked at first
schedule_validatedMutTimeFirst(state, store, clock, title, parsed_date, parsed_time, kept, description, newId, newEventId, oList, oMut) ==
    IF parsed_time = NoTime
    THEN Out(Fail(<<"Invalid time format '", "{time}", "'. Use HH:MM or 12-hour format">>),
             store, <<>>, <<>>)
    ELSE IF parsed_date = NoDate
    THEN Out(Fail(<<"Invalid date format '", "{date}", "'. Use YYYY-MM-DD">>),
             store, <<>>, <<>>)
    ELSE schedule_parsed(state, store, clock, title, StrfDate(parsed_date), parsed_time,
                         kept, description, newId, newEventId, oList, oMut)

\* lines 97-113: the two parses
schedule_validated(state, store, clock, title, parsed_date, parsed_time, kept, description, newId, newEventId, oList, oMut) ==
    IF parsed_date = NoDate
    THEN Out(Fail(<<"Invalid date format '", "{date}", "'. Use YYYY-MM-DD">>),
             store, <<>>, <<>>)
    ELSE IF parsed_time = NoTime
    THEN Out(Fail(<<"Invalid time format '", "{time}", "'. Use HH:MM or 12-hour format">>),
             store, <<>>, <<>>)
    ELSE schedule_parsed(state, store, clock, title, StrfDate(parsed_date), parsed_time,
                         kept, description, newId, newEventId, oList, oMut)

schedule_meeting(state, store, clock, title, date, time, participants, description, newId, newEventId, oList, oMut) ==
    IF title = <<>> \/ date.k = "empty" \/ time.k = "empty"
    THEN Out(Fail(<<"Missing required fields (title, date, time)">>), store, <<>>, <<>>)
    ELSE schedule_validated(state, store, clock, title, parse_date(date), parse_time(time),
                            SelectSeq(IF participants.some THEN participants.v ELSE <<>>,
                                   LAMBDA p : p # <<>> /\ Strip(p) # <<>>),
                            description, newId, newEventId, oList, oMut)

\* filters that keep a meeting as soon as one supplied filter matches it
filter_meetingsMutAny(meetings, participant, title, meeting_id) ==
    SelectSeq(meetings, LAMBDA m :
        \/ ~TruthyText(participant) /\ ~TruthyText(title) /\ ~TruthyId(meeting_id)
        \/ TruthyText(participant) /\
               \E i \in 1..Len(m.participants) :
                   IsSubstring(Lower(participant.v), Lower(m.participants[i]))
        \/ TruthyText(title) /\ IsSubstring(Lower(title.v), Lower(m.title))
        \/ TruthyId(meeting_id) /\
               (m.google_event_id = meeting_id.v \/ m.id = meeting_id.v))

\* lines 211-233: the three filters, in order
filter_meetings(meetings, participant, title, meeting_id) ==
    SelectSeq(meetings, LAMBDA m :
        /\ TruthyText(participant) =>
               \E i \in 1..Len(m.participants) :
                   IsSubstring(Lower(participant.v), Lower(m.participants[i]))
        /\ TruthyText(title) => IsSubstring(Lower(title.v), Lower(m.title))
        /\ TruthyId(meeting_id) =>
               (m.google_event_id = meeting_id.v \/ m.id = meeting_id.v))

\* lines 204-240: the result for the events fetched
details_fetched(store, participant, title, meeting_id, got) ==
    IF got.raised
    THEN Out(Fail(<<"Error retrieving meetings: ", "{e}">>), store, <<"get_events">>, got.wire)
    ELSE IF got.val = <<>>
    THEN Out([success |-> TRUE, meetings |-> <<>>, message |-> <<"No meetings found">>],
             store, <<"get_events">>, got.wire)
    ELSE Out([success |-> TRUE,
              meetings |-> filter_meetings(got.val, participant, title, meeting_id),
              count |-> Len(filter_meetings(got.val, participant, title, meeting_id)),
              message |-> <<"Found ", "{n}", " meeting(s) in Google Calendar">>],
             store, <<"get_events">>, got.wire)

\* lines 194-202: the window, then the listing
details_window(state, store, participant, title, meeting_id, time_min, days, o) ==
    details_fetched(store, participant, title, meeting_id,
                    get_events(state, store, time_min, time_min + days * MinPerDay, o))

get_meeting_details(state, store, clock, date, participant, title, meeting_id, o) ==
    IF TruthyStr(date)
    THEN IF parse_date(date.v) = NoDate
         THEN Out(Fail(<<"Invalid date format '", "{date}", "'. Use YYYY-MM-DD">>),
                  store, <<>>, <<>>)
         ELSE details_window(state, store, participant, title, meeting_id,
                             DayStart(parse_date(date.v)), 1, o)
    ELSE details_window(state, store, participant, title, meeting_id, clock, WindowDays, o)

RECURSIVE InsertByDateTime(_, _)
InsertByDateTime(sorted, m) ==
    IF sorted = <<>> THEN <<m>>
    ELSE IF StrpDateTime(m.date, m.time) < StrpDateTime(Head(sorted).date, Head(sorted).time)
    THEN <<m>> \o sorted
    ELSE <<Head(sorted)>> \o InsertByDateTime(Tail(sorted), m)

\* sorted(meetings, key=...): stable; the provider's order when a key fails to parse
RECURSIVE SortByDateTime(_)
SortByDateTime(s) ==
    IF s = <<>> THEN <<>>
    ELSE InsertByDateTime(SortByDateTime(SubSeq(s, 1, Len(s) - 1)), s[Len(s)])

sorted_meetings(meetings) ==
    IF \E i \in 1..Len(meetings) :
           StrpDateTime(meetings[i].date, meetings[i].time) = NoInstant
    THEN meetings
    ELSE SortByDateTime(meetings)

\* a listing that removes from the calendar the first meeting it returns
list_fetchedMutConsumes(store, got) ==
    IF got.raised
    THEN Out(Fail(<<"Error listing meetings: ", "{e}">>), store, <<"get_events">>, got.wire)
    ELSE IF got.val = <<>>
    THEN Out([success |-> TRUE, meetings |-> <<>>, count |-> 0,
              message |-> <<"No upcoming meetings in Google Calendar">>],
             store, <<"get_events">>, got.wire)
    ELSE Out([success |-> TRUE, meetings |-> sorted_meetings(got.val),
              count |-> Len(got.val),
              message |-> <<"Found ", "{n}", " upcoming meeting(s) in Google Calendar">>],
             ProviderDelete(store, got.val[1].google_event_id), <<"get_events">>, got.wire)

list_fetched(store, got) ==
    IF got.raised
    THEN Out(Fail(<<"Error listing meetings: ", "{e}">>), store, <<"get_events">>, got.wire)
    ELSE IF got.val = <<>>
    THEN Out([success |-> TRUE, meetings |-> <<>>, count |-> 0,
              message |-> <<"No upcoming meetings in Google Calendar">>],
             store, <<"get_events">>, got.wire)
    ELSE Out([success |-> TRUE, meetings |-> sorted_meetings(got.val),
              count |-> Len(got.val),
              message |-> <<"Found ", "{n}", " upcoming meeting(s) in Google Calendar">>],
             store, <<"get_events">>, got.wire)

list_all_meetings(state, store, clock, o) ==
    list_fetched(store, get_events(state, store, clock, clock + WindowDays * MinPerDay, o))

\* the fields update_meeting overwrites before its conflict check (lines 334-360)
MergeFields(meeting, title, date, time, participants, description) ==
    [meeting EXCEPT
        !.title = IF TruthyText(title) THEN title.v ELSE @,
        !.date = IF TruthyStr(date) THEN StrfDate(parse_date(date.v)) ELSE @,
        !.time = IF TruthyStr(time) THEN parse_time(time.v) ELSE @,
        !.participants = IF participants.some /\ participants.v # <<>>
                         THEN participants.v ELSE @,
        !.description = IF description.some THEN description.v ELSE @]

\* lines 375-388: the outcome of update_event
update_sent(store, found, chk, merged, sent) ==
    IF sent.raised
    THEN Out(Fail(<<"Error updating meeting: ", "{e}">>), store,
             found.calls \o chk.called \o <<"update_event">>,
             found.wire \o chk.wire \o sent.wire)
    ELSE IF sent.val
    THEN Out([success |-> TRUE, meeting |-> merged,
              message |-> <<"Successfully updated meeting '">> \o merged.title],
             sent.store,
             found.calls \o chk.called \o <<"update_event">>,
             found.wire \o chk.wire \o sent.wire)
    ELSE Out(Fail(<<"Failed to update event in Google Calendar">>), store,
             found.calls \o chk.called \o <<"update_event">>,
             found.wire \o chk.wire \o sent.wire)

\* lines 362-376: the conflict check's verdict, then update_event
update_checked(state, store, found, merged, google_event_id, oMut, chk) ==
    IF chk.val.some
    THEN Out(Fail(ConflictError(chk.val.v)), store,
             found.calls \o chk.called, found.wire \o chk.wire)
    ELSE update_sent(store, found, chk, merged,
                     update_event(state, store, merged, google_event_id, oMut))

\* lines 362-368: conflicts are checked only when a date or a time was supplied
update_merged(state, store, found, merged, google_event_id, date, time, oList, oMut) ==
    update_checked(state, store, found, merged, google_event_id, oMut,
                   IF TruthyStr(date) \/ TruthyStr(time)
                   THEN _check_time_conflict(state, store, merged.date, merged.time,
                                             Some(google_event_id), oList)
                   ELSE [val |-> None, wire |-> <<>>, called |-> <<>>])

\* lines 319-360: the lookup's verdict, then the merge of the supplied fields
update_found(state, store, meeting_id, title, date, time, participants, description, oList, oMut, found) ==
    IF ~found.res.success \/ found.res.meetings = <<>>
    THEN Out(Fail(<<"Meeting with ID '", meeting_id, "' not found in Google Calendar">>),
             store, found.calls, found.wire)
    ELSE IF found.res.meetings[1].google_event_id \in {NoId, ""}
    THEN Out(Fail(<<"Cannot update meeting: Google event ID not found">>),
             store, found.calls, found.wire)
    ELSE IF TruthyStr(date) /\ parse_date(date.v) = NoDate
    THEN Out(Fail(<<"Invalid date format '", "{date}", "'">>), store, found.calls, found.wire)
    ELSE IF TruthyStr(time) /\ parse_time(time.v) = NoTime
    THEN Out(Fail(<<"Invalid time format '", "{time}", "'">>), store, found.calls, found.wire)
    ELSE update_merged(state, store, found,
                       MergeFields(found.res.meetings[1], title, date, time,
                                   participants, description),
                       found.res.meetings[1].google_event_id, date, time, oList, oMut)

update_meeting(state, store, clock, meeting_id, title, date, time, participants, description, oFind, oList, oMut) ==
    update_found(state, store, meeting_id, title, date, time, participants, description,
                 oList, oMut,
                 get_meeting_details(state, store, clock, None, None, None,
                                     Some(meeting_id), oFind))

\* lines 425-438: the outcome of delete_event
delete_sent(store, found, meeting, gone) ==
    IF gone.raised
    THEN Out(Fail(<<"Error deleting meeting: ", "{e}">>), store,
             found.calls \o <<"delete_event">>, found.wire \o gone.wire)
    ELSE IF gone.val
    THEN Out([success |-> TRUE,
              message |-> <<"Successfully deleted meeting '">> \o meeting.title,
              deleted_meeting |-> meeting],
             gone.store, found.calls \o <<"delete_event">>, found.wire \o gone.wire)
    ELSE Out(Fail(<<"Failed to delete event from Google Calendar">>), store,
             found.calls \o <<"delete_event">>, found.wire \o gone.wire)

delete_found(state, store, meeting_id, oMut, found) ==
    IF ~found.res.success \/ found.res.meetings = <<>>
    THEN Out(Fail(<<"Meeting with ID '", meeting_id, "' not found in Google Calendar">>),
             store, found.calls, found.wire)
    ELSE IF found.res.meetings[1].google_event_id \in {NoId, ""}
    THEN Out(Fail(<<"Cannot delete meeting: Google event ID not found">>),
             store, found.calls, found.wire)
    ELSE delete_sent(store, found, found.res.meetings[1],
                     delete_event(state, store, found.res.meetings[1].google_event_id, oMut))

delete_meeting(state, store, clock, meeting_id, oFind, oMut) ==
    delete_found(state, store, meeting_id, oMut,
                 get_meeting_details(state, store, clock, None, None, None,
                                     Some(meeting_id), oFind))

----------------------------------------------------------------------------
(* The agent (agent/calendar_agent.py): the tool dispatcher and the loop   *)
(* of one user turn.                                                       *)

ToolNames ==
    {"schedule_meeting", "get_meeting_details", "list_all_meetings",
     "update_meeting", "delete_meeting"}

NotEnabledText == "Google Calendar integration is not enabled or authenticated"

\* A part of a model response: a function call (name, arguments, and whether the
\* argument names fit the handler's signature) or text.
CallPart(name, args, fits) ==
    [fc |-> TRUE, name |-> name, args |-> args, fits |-> fits, text |-> <<>>]

TextPart(text) == [fc |-> FALSE, name |-> "", args |-> None, fits |-> TRUE, text |-> text]

\* the handler a known tool name selects, called with **tool_input
dispatch(state, store, clock, tool_name, a, newId, newEventId, f) ==
    IF tool_name = "schedule_meeting"
    THEN schedule_meeting(state, store, clock, a.title, a.date, a.time, a.participants,
                          a.description, newId, newEventId, f.list, f.mut)
    ELSE IF tool_name = "get_meeting_details"
    THEN get_meeting_details(state, store, clock, a.date, a.participant, a.title,
                             a.meeting_id, f.find)
    ELSE IF tool_name = "list_all_meetings"
    THEN list_all_meetings(state, store, clock, f.find)
    ELSE IF tool_name = "update_meeting"
    THEN update_meeting(state, store, clock, a.meeting_id, a.title, a.date, a.time,
                        a.participants, a.description, f.find, f.list, f.mut)
    ELSE delete_meeting(state, store, clock, a.meeting_id, f.find, f.mut)

\* [raised, out]: CalendarHandlers() is constructed before the try block, so its
\* RuntimeError escapes; inside the try a TypeError of the call (argument names that
\* do not fit) becomes a result, and so does an unknown name
_execute_tool(state, store, clock, part, newId, newEventId, f) ==
    IF ~is_enabled(state)
    THEN [raised |-> TRUE, out |-> Out(None, store, <<>>, <<>>)]
    ELSE IF part.name \notin ToolNames
    THEN [raised |-> FALSE,
          out |-> Out(Fail(<<"Unknown tool: ", part.name>>), store, <<>>, <<>>)]
    ELSE IF ~part.fits /\ part.name # "list_all_meetings"
    THEN [raised |-> FALSE,
          out |-> Out(Fail(<<"Tool execution error: ", "{e}">>), store, <<>>, <<>>)]
    ELSE [raised |-> FALSE,
          out |-> dispatch(state, store, clock, part.name, part.args, newId, newEventId, f)]

ErrorReply(text) == <<"Error: ", text, "\n\nPlease try rephrasing your request.">>

ApiErrorText == "{model API error}"

DefaultReply == <<"Operation completed successfully.">>

\* the text parts of the response, concatenated
RECURSIVE ResultText(_)
ResultText(parts) ==
    IF parts = <<>> THEN <<>>
    ELSE (IF ~Head(parts).fc THEN Head(parts).text ELSE <<>>) \o ResultText(Tail(parts))

\* what run() returns once the loop has ended on `parts`
FinalReply(parts) ==
    IF Strip(ResultText(parts)) # <<>> THEN Strip(ResultText(parts)) ELSE DefaultReply

\* get_agent(): the module's one CalendarAgent, created at the first call.  `heap`
\* holds the chat history of every agent object created; the answer is the reference
\* returned and the heap afterwards.
get_agent(instance, heap) ==
    IF instance = None
    THEN [agent |-> Some(Len(heap) + 1), heap |-> Append(heap, <<>>)]
    ELSE [agent |-> instance, heap |-> heap]

\* chat.send_message in run(): the chat session records the user's content and the
\* model's answer
send_message(heap, agent, user_input, parts) ==
    [heap EXCEPT ![agent] = @ \o <<[role |-> "user", parts |-> user_input],
                                   [role |-> "model", parts |-> parts]>>]

\* reset_history(): the agent's chat is replaced by a new, empty one
reset_history(heap, agent) == [heap EXCEPT ![agent] = <<>>]

----------------------------------------------------------------------------
(* Bounds and the inputs the handlers are driven with. *)

MaxCreates == 2

MaxTicks == 1

TickMin == 30

Now0 == Instant(2025, 6, 10, 14, 0)

LocalIds == <<"a1b2c3d4", "e5f6a7b8", "c9d0e1f2", "0a1b2c3d">>

EventIds == <<"evt1", "evt2", "evt3", "evt4">>

Standup == <<"Standup">>

Review == <<"Review">>

\* "2025-06-10", "2025/06/10", "10-06-2025", "10/06/2025": the day of Now0
DToday == DateStr(2025, 4, "-", 6, 2, "-", 10, 2)

DSlash == DateStr(2025, 4, "/", 6, 2, "/", 10, 2)

DDmy == DateStr(10, 2, "-", 6, 2, "-", 2025, 4)

DDmySlash == DateStr(10, 2, "/", 6, 2, "/", 2025, 4)

\* "2025-07-25": more than 30 days after Now0
DFar == DateStr(2025, 4, "-", 7, 2, "-", 25, 2)

\* "2025.06.10", "2025-02-30", "tomorrow": no format parses them
DDots == DateStr(2025, 4, ".", 6, 2, ".", 10, 2)

DFeb30 == DateStr(2025, 4, "-", 2, 2, "-", 30, 2)

DWords == OtherText

\* "14:00", "14:30", "3 PM", "16:00"; "25:00" parses under no form
T1400 == TimeStr(14, 2, TRUE, 0, 2, "")

T1430 == TimeStr(14, 2, TRUE, 30, 2, "")

T3PM == TimeStr(3, 1, FALSE, 0, 0, "PM")

T1600 == TimeStr(16, 2, TRUE, 0, 2, "")

T2500 == TimeStr(25, 2, TRUE, 0, 2, "")

\* "23:30" and "00:00": either side of midnight
T2330 == TimeStr(23, 2, TRUE, 30, 2, "")

T0000 == TimeStr(0, 2, TRUE, 0, 2, "")

\* "2025-06-11": the day after Now0
DTomorrow == DateStr(2025, 4, "-", 6, 2, "-", 11, 2)

AliceMail == <<"alice", "@", "example", ".", "com">>

AlicePadded == <<SP, "alice", "@", "example", ".", "com", SP>>

DaveLocal == <<"dave", "@", "localhost">>

Bob == <<"Bob">>

Notes == <<"Notes">>

\* which provider requests of one handler call fail, and how: the lookup, the
\* conflict check's listing, the mutation
Plan(find, list, mut) == [find |-> find, list |-> list, mut |-> mut]

FaultPlans ==
    {Plan("ok", "ok", "ok"), Plan("http", "ok", "ok"), Plan("exc", "ok", "ok"),
     Plan("ok", "http", "ok"), Plan("ok", "exc", "ok"),
     Plan("ok", "ok", "http"), Plan("ok", "ok", "exc")}

SArgs(title, date, time, participants, description) ==
    [title |-> title, date |-> date, time |-> time,
     participants |-> participants, description |-> description]

UArgs(meeting_id, title, date, time, participants, description) ==
    [meeting_id |-> meeting_id, title |-> title, date |-> date, time |-> time,
     participants |-> participants, description |-> description]

GArgs(date, participant, title, meeting_id) ==
    [date |-> date, participant |-> participant, title |-> title, meeting_id |-> meeting_id]

\* scheduling-rule inputs: every date layout and time form, fixed content
RuleDates == {DToday, DSlash, DDmy, DDmySlash, DFar, DDots, DFeb30, DWords}

RuleTimes == {T1400, T1430, T3PM, T2500}

RuleSchedules ==
    {SArgs(Standup, d, t, None, <<>>) : d \in RuleDates, t \in RuleTimes}
    \cup {SArgs(<<>>, DToday, T1430, None, <<>>), SArgs(Standup, EmptyText, T1430, None, <<>>),
          SArgs(Standup, DToday, EmptyText, None, <<>>), SArgs(<<>>, DDots, T2500, None, <<>>)}

RuleIds == {LocalIds[1], EventIds[2], "nope"}

RuleUpdates ==
    {UArgs(id, None, d, t, None, None) :
        id \in RuleIds,
        d \in {None, Some(DToday), Some(DDots), Some(EmptyText)},
        t \in {None, Some(T1430), Some(T3PM), Some(T2500)}}

RuleGets ==
    {GArgs(d, None, None, id) :
        d \in {None, Some(DToday), Some(DDmy), Some(DDots)},
        id \in {None, Some(LocalIds[1]), Some(EventIds[2])}}

\* content inputs: one participants list with every kind of entry (an address with
\* spaces around it, a name, an empty and a blank entry, an '@' without a '.'),
\* two descriptions, two time slots of one day
Guests == <<AlicePadded, Bob, <<>>, <<SP>>, DaveLocal>>

DataSchedules ==
    {SArgs(Standup, DToday, t, p, <<>>) : t \in {T1430, T1600}, p \in {None, Some(Guests)}}
    \cup {SArgs(Standup, DToday, T1430, Some(Guests), Notes),
          SArgs(Standup, DToday, T1600, None, Notes)}

DataIds == {LocalIds[1], EventIds[1]}

DataUpdates ==
    {UArgs(LocalIds[1], ti, None, t, p, None) :
        ti \in {None, Some(Review)}, t \in {None, Some(T1600)}, p \in {None, Some(<<Bob>>)}}
    \cup {UArgs(EventIds[1], None, None, None, None, Some(<<>>))}

DataGets ==
    {GArgs(None, p, ti, None) : p \in {None, Some(<<"ALICE">>)}, ti \in {None, Some(<<"standup">>)}}
    \cup {GArgs(None, None, None, Some(id)) : id \in {LocalIds[1], EventIds[2]}}
    \cup {GArgs(None, Some(<<"ALICE">>), Some(<<"standup">>), Some(LocalIds[1]))}

\* an update is taken only while no stored description exceeds this many tokens
\* (each update can append a "Participants: " paragraph)
MaxDescTokens == 8

MaxTools == 2

\* browser sessions, the messages their users type, and the turns one chat may hold
Sessions == {"s1", "s2"}

MaxTurns == 2

UserTexts == {<<"List all my meetings">>, <<"Schedule a standup">>}

Hello == <<"Done.">>

CSchedule == CallPart("schedule_meeting",
                      SArgs(Standup, DToday, T1430, Some(<<AliceMail>>), <<>>), TRUE)

CSchedule3PM == CallPart("schedule_meeting", SArgs(Standup, DDmy, T3PM, None, Notes), TRUE)

CSchedulePast == CallPart("schedule_meeting", SArgs(Standup, DToday, T1400, None, <<>>), TRUE)

CScheduleBad == CallPart("schedule_meeting", SArgs(Standup, DDots, T2500, None, <<>>), TRUE)

CScheduleNoTitle == CallPart("schedule_meeting", SArgs(<<>>, DToday, T1430, None, <<>>), FALSE)

CGet == CallPart("get_meeting_details", GArgs(None, None, None, Some(LocalIds[1])), TRUE)

CGetBad == CallPart("get_meeting_details", GArgs(Some(DDots), None, None, None), TRUE)

CList == CallPart("list_all_meetings", None, TRUE)

CUpdate == CallPart("update_meeting",
                    UArgs(LocalIds[1], None, None, Some(T3PM), None, None), TRUE)

CUpdateBad == CallPart("update_meeting",
                       UArgs(EventIds[1], None, Some(DFeb30), Some(T2500), None, None), TRUE)

CDelete == CallPart("delete_meeting", [meeting_id |-> EventIds[2]], TRUE)

CUnknown == CallPart("send_email", None, TRUE)

\* the calls _execute_tool is driven with beside the handlers' own inputs
RuleCalls ==
    {CallPart("schedule_meeting", SArgs(Standup, DToday, T1430, None, <<>>), TRUE),
     CScheduleNoTitle, CGet, CList, CUpdate, CDelete, CUnknown}

AgentCalls ==
    {CSchedule, CSchedule3PM, CSchedulePast, CScheduleBad, CScheduleNoTitle, CGet, CGetBad,
     CList, CUpdate, CUpdateBad, CDelete, CUnknown}

\* what the model may answer: nothing, text, one call, text before a call, two calls
Responses ==
    {<<>>, <<TextPart(Hello)>>, <<TextPart(Hello), CallPart("list_all_meetings", None, TRUE)>>,
     <<CUnknown, CList>>}
    \cup {<<c>> : c \in AgentCalls}

\* inputs that move meetings: meetings of today, of either side of midnight and of a
\* day more than 30 days ahead, moved by a new time, a new date or both
MoveSchedules ==
    {SArgs(Standup, DToday, T1430, None, <<>>),
     SArgs(Review, DToday, T2330, None, <<>>),
     SArgs(Review, DTomorrow, T0000, None, <<>>),
     SArgs(Standup, DFar, T1430, None, <<>>)}

MoveUpdates ==
    {UArgs(id, None, d, t, None, None) :
        id \in {LocalIds[1], EventIds[2]},
        d \in {None, Some(DToday), Some(DTomorrow)},
        t \in {None, Some(T3PM), Some(T2330), Some(T0000)}}

\* query inputs: meetings of three days with different titles and participants, and
\* every combination of a date, a participant, a title and an id filter
MaxDays == 1

DTomorrowDmy == DateStr(11, 2, "/", 6, 2, "/", 2025, 4)

TeamStandup == <<"Team", SP, "Standup">>

BobMail == <<"bob", "@", "example", ".", "com">>

QuerySchedules ==
    {SArgs(TeamStandup, DToday, T1430, Some(<<AliceMail, Bob>>), <<>>),
     SArgs(Review, DToday, T1600, Some(<<BobMail>>), <<>>),
     SArgs(Standup, DTomorrow, T1430, None, Notes),
     SArgs(Review, DFar, T1430, Some(<<AliceMail, BobMail>>), <<>>)}

QueryGets ==
    {GArgs(d, p, ti, id) :
        d \in {None, Some(DToday), Some(DTomorrowDmy)},
        p \in {None, Some(<<"ALICE">>)},
        ti \in {None, Some(<<"standup">>)},
        id \in {None, Some(LocalIds[1]), Some(EventIds[2])}}

\* the meetings and event ids the adapter's methods are called with directly; the
\* last meeting has a time strptime rejects
AMeeting(id, date, time, participants) ==
    [id |-> id, title |-> Standup, date |-> date, time |-> time,
     participants |-> participants, description |-> <<>>]

AdapterSlots ==
    {[date |-> StrfDate(Now0), time |-> [h |-> 14, m |-> 30], participants |-> <<>>],
     [date |-> StrfDate(Now0), time |-> [h |-> 16, m |-> 0], participants |-> <<AliceMail, Bob>>],
     [date |-> StrfDate(Now0), time |-> NoTime, participants |-> <<>>]}

AdapterIds == {EventIds[1], EventIds[2]}

\* the windows get_events is called with: the day of Now0, the next 30 days
AdapterWindows ==
    {[time_min |-> DayStart(Now0), time_max |-> DayStart(Now0) + MinPerDay],
     [time_min |-> Now0, time_max |-> Now0 + WindowDays * MinPerDay]}

----------------------------------------------------------------------------
(* The state machine of direct handler calls, as the integration tests     *)
(* make them: CalendarHandlers() is constructed (it raises unless the      *)
(* adapter is enabled) and one method is called.  `last` records the call  *)
(* until the caller has taken the result (Return).                         *)

NoCall == [op |-> "none"]

Idle == last.op = "none"

Record(op, args, out) ==
    [op |-> op, args |-> args, res |-> out.res, calls |-> out.calls, wire |-> out.wire,
     pre |-> remote, at |-> now]

AgentIdle == UNCHANGED <<pc, response, toolsRun, fed, turnOut>>

AppIdle == UNCHANGED <<agentInstance, chats, sessionState>>

Init ==
    /\ remote = <<>>
    /\ now = Now0
    /\ svc = "authenticated"
    /\ nextId = 0
    /\ last = NoCall
    /\ sched = None
    /\ pc = "idle"
    /\ response = <<>>
    /\ toolsRun = 0
    /\ fed = None
    /\ turnOut = <<>>
    /\ agentInstance = None
    /\ chats = <<>>
    /\ sessionState = [s \in Sessions |-> [agent |-> None, messages |-> <<>>]]

\* the effect of a call once its handler has answered `out`
Scheduled(a, out) ==
    /\ last' = Record("schedule_meeting", a, out)
    /\ remote' = out.store
    /\ nextId' = IF out.res.success THEN nextId + 1 ELSE nextId
    /\ sched' = IF out.res.success THEN Some(out.res.meeting) ELSE sched

Schedule(inputs) ==
    /\ Idle /\ is_enabled(svc) /\ nextId < MaxCreates
    /\ \E a \in inputs, f \in FaultPlans :
          /\ f.find = "ok"
          /\ Scheduled(a, schedule_meeting(svc, remote, now, a.title, a.date, a.time,
                                           a.participants, a.description,
                                           LocalIds[nextId + 1], EventIds[nextId + 1],
                                           f.list, f.mut))
    /\ UNCHANGED <<now, svc>>
    /\ AgentIdle
    /\ AppIdle

GetDetails(inputs) ==
    /\ Idle /\ is_enabled(svc)
    /\ \E a \in inputs, f \in FaultPlans :
          /\ f.list = "ok" /\ f.mut = "ok"
          /\ last' = Record("get_meeting_details", a,
                            get_meeting_details(svc, remote, now, a.date, a.participant,
                                                a.title, a.meeting_id, f.find))
    /\ UNCHANGED <<remote, now, svc, nextId, sched>>
    /\ AgentIdle
    /\ AppIdle

\* a list_all_meetings call and its result; prev is the result of the list call made
\* just before it, when the caller lists twice in a row
ListRecord(out) ==
    [op |-> "list_all_meetings", args |-> None, res |-> out.res, calls |-> out.calls,
     wire |-> out.wire, pre |-> remote, at |-> now,
     prev |-> IF Idle THEN None ELSE Some([res |-> last.res, wire |-> last.wire])]

Listed(out) ==
    /\ last' = ListRecord(out)
    /\ remote' = out.store

ListAll ==
    /\ last.op \in {"none", "list_all_meetings"} /\ is_enabled(svc)
    /\ \E f \in FaultPlans :
          /\ f.list = "ok" /\ f.mut = "ok"
          /\ Listed(list_all_meetings(svc, remote, now, f.find))
    /\ UNCHANGED <<now, svc, nextId, sched>>
    /\ AgentIdle
    /\ AppIdle

Mutated(op, a, out) ==
    /\ last' = Record(op, a, out)
    /\ remote' = out.store
    /\ sched' = IF out.res.success THEN None ELSE sched

Update(inputs) ==
    /\ Idle /\ is_enabled(svc)
    /\ \A i \in 1..Len(remote) : Len(remote[i].description) <= MaxDescTokens
    /\ \E a \in inputs, f \in FaultPlans :
          Mutated("update_meeting", a,
                  update_meeting(svc, remote, now, a.meeting_id, a.title, a.date, a.time,
                                 a.participants, a.description, f.find, f.list, f.mut))
    /\ UNCHANGED <<now, svc, nextId>>
    /\ AgentIdle
    /\ AppIdle

Delete(ids) ==
    /\ Idle /\ is_enabled(svc)
    /\ \E id \in ids, f \in FaultPlans :
          /\ f.list = "ok"
          /\ Mutated("delete_meeting", [meeting_id |-> id],
                     delete_meeting(svc, remote, now, id, f.find, f.mut))
    /\ UNCHANGED <<now, svc, nextId>>
    /\ AgentIdle
    /\ AppIdle

\* _execute_tool called with a tool name and its arguments
Dispatched(part, did) ==
    /\ ~did.raised
    /\ last' = Record("_execute_tool", part, did.out)
    /\ remote' = did.out.store
    /\ nextId' = IF part.name = "schedule_meeting" /\ did.out.res.success
                 THEN nextId + 1 ELSE nextId
    /\ sched' = IF part.name \in {"schedule_meeting", "update_meeting", "delete_meeting"}
                    /\ did.out.res.success
                 THEN None ELSE sched

Dispatch(calls) ==
    /\ Idle /\ nextId < MaxCreates
    /\ \E part \in calls, f \in FaultPlans :
          Dispatched(part, _execute_tool(svc, remote, now, part, LocalIds[nextId + 1],
                                         EventIds[nextId + 1], f))
    /\ UNCHANGED <<now, svc>>
    /\ AgentIdle
    /\ AppIdle

\* the caller has taken the result
Return ==
    /\ ~Idle
    /\ last' = NoCall
    /\ UNCHANGED <<remote, now, svc, nextId, sched>>
    /\ AgentIdle
    /\ AppIdle

\* time passes between calls
Tick ==
    /\ Idle /\ pc = "idle"
    /\ now < Now0 + MaxTicks * TickMin
    /\ now' = now + TickMin
    /\ UNCHANGED <<remote, svc, nextId, last, sched>>
    /\ AgentIdle
    /\ AppIdle

Next ==
    \/ Schedule(RuleSchedules)
    \/ GetDetails(RuleGets)
    \/ ListAll
    \/ Update(RuleUpdates)
    \/ Delete(RuleIds)
    \/ Dispatch(RuleCalls)
    \/ Return
    \/ Tick

Spec == Init /\ [][Next]_vars

NextData ==
    \/ Schedule(DataSchedules)
    \/ GetDetails(DataGets)
    \/ ListAll
    \/ Update(DataUpdates)
    \/ Delete(DataIds)
    \/ Return

SpecData == Init /\ [][NextData]_vars

NextMove ==
    \/ Schedule(MoveSchedules)
    \/ Update(MoveUpdates)
    \/ Return

SpecMove == Init /\ [][NextMove]_vars

\* a day passes between calls
NextDay ==
    /\ Idle /\ pc = "idle"
    /\ now < Now0 + MaxDays * MinPerDay
    /\ now' = now + MinPerDay
    /\ UNCHANGED <<remote, svc, nextId, last, sched>>
    /\ AgentIdle
    /\ AppIdle

NextQuery ==
    \/ Schedule(QuerySchedules)
    \/ GetDetails(QueryGets)
    \/ Tick
    \/ NextDay
    \/ Return

SpecQuery == Init /\ [][NextQuery]_vars

\* run(): the user's message is sent to the model
StartTurn ==
    /\ pc = "idle"
    /\ pc' = "calling"
    /\ response' = <<>>
    /\ toolsRun' = 0
    /\ fed' = None
    /\ turnOut' = <<>>
    /\ UNCHANGED <<remote, now, svc, nextId, last, sched>>
    /\ AppIdle

\* chat.send_message returns the model's response, or raises
ModelResponds ==
    /\ pc = "calling"
    /\ \/ \E r \in Responses :
             /\ response' = r
             /\ pc' = "awaiting"
             /\ turnOut' = turnOut
       \/ /\ pc' = "done"
          /\ turnOut' = ErrorReply(ApiErrorText)
          /\ response' = response
    /\ fed' = None
    /\ UNCHANGED <<remote, now, svc, nextId, last, sched, toolsRun>>
    /\ AppIdle

\* a pass that counts the tool as run twice before it answers the model
ExecutedMutRunsTwice(part, did) ==
    IF did.raised
    THEN /\ pc' = "done"
         /\ turnOut' = ErrorReply(NotEnabledText)
         /\ UNCHANGED <<remote, nextId, fed, toolsRun>>
    ELSE /\ pc' = "calling"
         /\ fed' = Some([name |-> part.name, response |-> [result |-> did.out.res]])
         /\ remote' = did.out.store
         /\ nextId' = IF part.name = "schedule_meeting" /\ did.out.res.success
                      THEN nextId + 1 ELSE nextId
         /\ toolsRun' = toolsRun + 2
         /\ turnOut' = turnOut

\* one pass of the while loop on a response whose first part is a function call
Executed(part, did) ==
    IF did.raised
    THEN /\ pc' = "done"
         /\ turnOut' = ErrorReply(NotEnabledText)
         /\ UNCHANGED <<remote, nextId, fed, toolsRun>>
    ELSE /\ pc' = "calling"
         /\ fed' = Some([name |-> part.name, response |-> [result |-> did.out.res]])
         /\ remote' = did.out.store
         /\ nextId' = IF part.name = "schedule_meeting" /\ did.out.res.success
                      THEN nextId + 1 ELSE nextId
         /\ toolsRun' = toolsRun + 1
         /\ turnOut' = turnOut

ToolStep ==
    /\ pc = "awaiting"
    /\ IF response = <<>> THEN FALSE ELSE response[1].fc
    /\ toolsRun < MaxTools
    /\ nextId < MaxCreates
    /\ \E f \in FaultPlans :
          Executed(response[1],
                   _execute_tool(svc, remote, now, response[1],
                                 LocalIds[nextId + 1], EventIds[nextId + 1], f))
    /\ UNCHANGED <<now, svc, last, sched, response>>
    /\ AppIdle

\* the loop ends: no parts, or a first part that is no function call
Finish ==
    /\ pc = "awaiting"
    /\ IF response = <<>> THEN TRUE ELSE ~response[1].fc
    /\ pc' = "done"
    /\ turnOut' = FinalReply(response)
    /\ UNCHANGED <<remote, now, svc, nextId, last, sched, response, toolsRun, fed>>
    /\ AppIdle

\* the reply is shown; the next user message can be taken
TurnReturns ==
    /\ pc = "done"
    /\ pc' = "idle"
    /\ UNCHANGED <<remote, now, svc, nextId, last, sched, response, toolsRun, fed, turnOut>>
    /\ AppIdle

\* get_google_calendar_service re-creates the singleton (settings tab, a new token):
\* the new adapter is authenticated or, when its credentials fail, is not
Reinit ==
    /\ \E s \in {"authenticated", "unauthenticated"} : svc' = s
    /\ UNCHANGED <<remote, now, nextId, last, sched, pc, response, toolsRun, fed, turnOut>>
    /\ AppIdle

\* The adapter's methods called directly (app.py, sync_event), in either state of
\* the adapter; `last` records the call, its answer and the adapter's state.
AdapterRecord(op, args, ans) ==
    [op |-> op, args |-> args, val |-> ans.val, raised |-> ans.raised, wire |-> ans.wire,
     pre |-> remote, at |-> now, state |-> svc]

AdapterCreate ==
    /\ Idle /\ nextId < MaxCreates
    /\ \E slot \in AdapterSlots, o \in Outcomes :
          LET meeting == AMeeting(LocalIds[nextId + 1], slot.date, slot.time,
                                  slot.participants)
              ans == create_event(svc, remote, meeting, EventIds[nextId + 1], o)
          IN  /\ last' = AdapterRecord("create_event", meeting, ans)
              /\ remote' = ans.store
              /\ nextId' = IF ans.val # NoId THEN nextId + 1 ELSE nextId
    /\ UNCHANGED <<now, svc, sched>>
    /\ AgentIdle
    /\ AppIdle

AdapterUpdate ==
    /\ Idle
    /\ \E slot \in AdapterSlots, id \in AdapterIds, o \in Outcomes :
          LET meeting == AMeeting(LocalIds[1], slot.date, slot.time, slot.participants)
              ans == update_event(svc, remote, meeting, id, o)
          IN  /\ last' = AdapterRecord("update_event",
                                       [meeting |-> meeting, google_event_id |-> id], ans)
              /\ remote' = ans.store
    /\ UNCHANGED <<now, svc, nextId, sched>>
    /\ AgentIdle
    /\ AppIdle

AdapterDelete ==
    /\ Idle
    /\ \E id \in AdapterIds, o \in Outcomes :
          LET ans == delete_event(svc, remote, id, o)
          IN  /\ last' = AdapterRecord("delete_event", [google_event_id |-> id], ans)
              /\ remote' = ans.store
    /\ UNCHANGED <<now, svc, nextId, sched>>
    /\ AgentIdle
    /\ AppIdle

AdapterGet ==
    /\ Idle
    /\ \E w \in AdapterWindows, o \in Outcomes :
          LET ans == get_events(svc, remote, w.time_min, w.time_max, o)
          IN  /\ last' = AdapterRecord("get_events", w, ans)
              /\ remote' = ans.store
    /\ UNCHANGED <<now, svc, nextId, sched>>
    /\ AgentIdle
    /\ AppIdle

\* the singleton is re-created between two calls
Reconfigure == Idle /\ Reinit

NextAdapter ==
    \/ AdapterCreate
    \/ AdapterUpdate
    \/ AdapterDelete
    \/ AdapterGet
    \/ Reconfigure
    \/ Return

SpecAdapter == Init /\ [][NextAdapter]_vars

NextAgent ==
    \/ StartTurn
    \/ ModelResponds
    \/ ToolStep
    \/ Finish
    \/ TurnReturns
    \/ Reinit

SpecAgent == Init /\ [][NextAgent]_vars

\* The chat application (app.py): each browser session runs the script with its own
\* st.session_state, all in one process.  `last` records a session's call and the
\* chat histories before it.
SessionRecord(op, s, user_input) ==
    [op |-> op, session |-> s, args |-> user_input, pre |-> chats, at |-> now]

\* initialize_session_state(): a session without an agent takes the one of get_agent()
InitializeSession ==
    /\ Idle
    /\ \E s \in Sessions :
          /\ sessionState[s].agent = None
          /\ LET got == get_agent(agentInstance, chats)
             IN  /\ agentInstance' = got.agent
                 /\ chats' = got.heap
                 /\ sessionState' = [sessionState EXCEPT ![s].agent = got.agent]
    /\ UNCHANGED <<remote, now, svc, nextId, last, sched>>
    /\ AgentIdle

\* main(): the user's message is appended, the session's agent runs the turn (the
\* model answers with text), the reply is appended
SessionTurn ==
    /\ Idle
    /\ \E s \in Sessions, user_input \in UserTexts :
          /\ sessionState[s].agent # None
          /\ Len(chats[sessionState[s].agent.v]) < 2 * MaxTurns
          /\ Len(sessionState[s].messages) < 2 * MaxTurns
          /\ chats' = send_message(chats, sessionState[s].agent.v, user_input,
                                   <<TextPart(Hello)>>)
          /\ sessionState' =
                 [sessionState EXCEPT ![s].messages =
                     @ \o <<[role |-> "user", content |-> user_input],
                            [role |-> "agent",
                             content |-> FinalReply(<<TextPart(Hello)>>)]>>]
          /\ last' = SessionRecord("run", s, user_input)
    /\ UNCHANGED <<remote, now, svc, nextId, sched, agentInstance>>
    /\ AgentIdle

\* display_sidebar(): the Clear Chat button
ClearChat ==
    /\ Idle
    /\ \E s \in Sessions :
          /\ sessionState[s].agent # None
          /\ chats' = reset_history(chats, sessionState[s].agent.v)
          /\ sessionState' = [sessionState EXCEPT ![s].messages = <<>>]
          /\ last' = SessionRecord("reset_history", s, <<>>)
    /\ UNCHANGED <<remote, now, svc, nextId, sched, agentInstance>>
    /\ AgentIdle

NextSessions ==
    \/ InitializeSession
    \/ SessionTurn
    \/ ClearChat
    \/ Return

SpecSessions == Init /\ [][NextSessions]_vars

----------------------------------------------------------------------------
(* Properties.  They read the record of the latest call (last), the        *)
(* provider's store before it (last.pre) and after it (remote), and the    *)
(* agent loop's variables.                                                 *)

ScheduleCall == last.op = "schedule_meeting"

UpdateCall == last.op = "update_meeting"

GetCall == last.op = "get_meeting_details"

\* every provider request of the call was answered
AllAnswered(wire) == \A i \in 1..Len(wire) : wire[i].o = "ok"

Requested(wire, kind) == \E i \in 1..Len(wire) : wire[i].req = kind

\* the instant a schedule call asks for; NoInstant when its date or time does not parse
AskedInstant(a) ==
    IF parse_date(a.date) = NoDate \/ parse_time(a.time) = NoTime THEN NoInstant
    ELSE parse_date(a.date) + parse_time(a.time).h * 60 + parse_time(a.time).m

StartOf(event) == IsoInstant(event.start)

EventWithId(store, id) == CHOOSE e \in {store[i] : i \in 1..Len(store)} : e.id = id

\* the stored event an id (remote or local) names lies in the window of the lookup
Resolves(store, clock, id) ==
    \E i \in 1..Len(store) :
        /\ store[i].id = id \/ store[i].local_id = id
        /\ IsoInstant(store[i].endt) > clock
        /\ StartOf(store[i]) < clock + 30 * 1440

\* the text is laid out as one of YYYY-MM-DD, YYYY/MM/DD, DD-MM-YYYY, DD/MM/YYYY
MatchesLayout(s) ==
    /\ s.k = "nsnsn"
    /\ s.s1 = s.s2 /\ s.s1 \in {"-", "/"}
    /\ s.b.w \in 1..2
    /\ \/ s.a.w = 4 /\ s.c.w \in 1..2
       \/ s.c.w = 4 /\ s.a.w \in 1..2

\* the text is laid out as YYYY-MM-DD
IsoLayout(s) ==
    /\ s.k = "nsnsn"
    /\ s.s1 = "-" /\ s.s2 = "-"
    /\ s.a.w = 4 /\ s.b.w \in 1..2 /\ s.c.w \in 1..2

HasAtAndDot(p) == (\E i \in 1..Len(p) : p[i] = "@") /\ (\E i \in 1..Len(p) : p[i] = ".")

InvalidDateError(res) == ~res.success /\ Head(res.error) = "Invalid date format '"

ConflictErrorResult(res) == ~res.success /\ Head(res.error) = "Time conflict with '"

\* C1's case: one meeting stored, a schedule call for a later instant of the same day,
\* every provider request answered
C1_Case ==
    /\ ScheduleCall
    /\ Len(last.pre) = 1
    /\ last.args.title # <<>>
    /\ AskedInstant(last.args) # NoInstant
    /\ AskedInstant(last.args) > last.at
    /\ AskedInstant(last.args) \div 1440 = StartOf(last.pre[1]) \div 1440
    /\ AllAnswered(last.wire)

\* C1: with one meeting stored at S, schedule_meeting for a start T of the same day
\* fails with the time-conflict error and stores nothing whenever T < S + 60 min and
\* S < T + 60 min, and succeeds when the two 60-minute intervals only touch
\* (T = S + 60 min or S = T + 60 min): the intervals are half-open.
C1_HalfOpenConflict ==
    C1_Case =>
        LET S == StartOf(last.pre[1])
            T == AskedInstant(last.args)
        IN  /\ (T < S + 60 /\ S < T + 60) =>
                   (ConflictErrorResult(last.res) /\ remote = last.pre)
            /\ (T = S + 60 \/ S = T + 60) =>
                   (last.res.success /\ Len(remote) = 2)

C1_Witness ==
    /\ C1_Case
    /\ AskedInstant(last.args) = StartOf(last.pre[1]) + 30
    /\ ConflictErrorResult(last.res)

\* the result envelope: a boolean success; a failure carries a non-empty error, a
\* success carries no error key
Envelope(r) ==
    /\ "success" \in DOMAIN r
    /\ r.success \in BOOLEAN
    /\ IF r.success THEN "error" \notin DOMAIN r
       ELSE /\ "error" \in DOMAIN r
            /\ \E i \in 1..Len(r.error) : r.error[i] # ""

\* C2: every result returned by the five handlers and by the dispatcher satisfies the
\* envelope invariant: success=False comes with a non-empty error, success=True with
\* no error key.
C2_Envelope == ~Idle => Envelope(last.res)

C2_Witness ==
    /\ last.op = "_execute_tool"
    /\ ~last.res.success
    /\ Head(last.res.error) = "Tool execution error: "

\* C6's case: a schedule call with a title whose date and time parse to an instant
\* that is not after the clock
C6_Case ==
    /\ ScheduleCall
    /\ last.args.title # <<>>
    /\ AskedInstant(last.args) # NoInstant
    /\ AskedInstant(last.args) <= last.at

\* C6: for a valid (date, time) pair whose instant is not strictly after the current
\* time, schedule_meeting answers success=false with the past-date error, does not call
\* the adapter's create_event, sends no insert and leaves the store as it was.
C6_PastRejected ==
    C6_Case =>
        /\ ~last.res.success
        /\ last.res.error = <<"Cannot schedule meetings in the past">>
        /\ ~Contains(last.calls, "create_event")
        /\ ~Requested(last.wire, "insert")
        /\ remote = last.pre

C6_Witness ==
    /\ C6_Case
    /\ AskedInstant(last.args) = last.at
    /\ last.res.error = <<"Cannot schedule meetings in the past">>

\* C7's cases: a non-empty date text in none of the four layouts, given to a schedule
\* call that has its title and time, or to an update call whose target resolves
C7_ScheduleCase ==
    /\ ScheduleCall
    /\ last.args.title # <<>> /\ last.args.time.k # "empty"
    /\ last.args.date.k # "empty" /\ ~MatchesLayout(last.args.date)

C7_UpdateCase ==
    /\ UpdateCall
    /\ last.args.date.some
    /\ last.args.date.v.k # "empty" /\ ~MatchesLayout(last.args.date.v)
    /\ Resolves(last.pre, last.at, last.args.meeting_id)
    /\ AllAnswered(last.wire)

\* C7: for a date string in none of the four accepted layouts parse_date answers null,
\* and schedule_meeting and update_meeting called with it answer success=false with
\* the invalid-date-format error, leaving the store as it was.
C7_BadDateRejected ==
    /\ C7_ScheduleCase =>
           /\ parse_date(last.args.date) = NoDate
           /\ InvalidDateError(last.res)
           /\ last.wire = <<>> /\ remote = last.pre
    /\ C7_UpdateCase =>
           /\ parse_date(last.args.date.v) = NoDate
           /\ InvalidDateError(last.res)
           /\ ~Requested(last.wire, "update") /\ remote = last.pre

C7_Witness ==
    /\ C7_UpdateCase
    /\ last.args.date.v = DDots
    /\ InvalidDateError(last.res)

\* C8: schedule_meeting accepts a date only in the YYYY-MM-DD layout: a call whose date
\* is written in another layout answers success=false, whatever instant it denotes.
C8_OnlyIsoLayoutAccepted ==
    (ScheduleCall /\ last.args.date.k # "empty" /\ ~IsoLayout(last.args.date)) =>
        ~last.res.success

\* the arguments of an update that supplies its time and nothing else
OnlyTimeSupplied(a) ==
    /\ a.time.some /\ a.time.v.k # "empty"
    /\ ~a.title.some /\ ~a.date.some /\ ~a.participants.some /\ ~a.description.some

\* C3: after update_meeting on an existing meeting with only 'time' supplied, the
\* meeting's title, participants and description are the values stored before the
\* update.
C3_OnlyTimeChanges ==
    (UpdateCall /\ last.res.success /\ OnlyTimeSupplied(last.args)) =>
        LET id     == last.res.meeting.google_event_id
            before == EventWithId(last.pre, id)
            after  == EventWithId(remote, id)
        IN  /\ after.summary = before.summary
            /\ after.attendees = before.attendees
            /\ after.description = before.description

\* the participant entries of a meeting that are addresses, as they are written
EmailEntries(participants) == SelectSeq(Map(participants, Strip), HasAtAndDot)

\* C4's case: the meeting of the latest successful schedule, not touched since, is
\* looked up by the local id or the remote id that schedule returned
C4_Case ==
    /\ GetCall
    /\ sched.some
    /\ last.args.meeting_id \in {Some(sched.v.id), Some(sched.v.google_event_id)}
    /\ ~last.args.date.some /\ ~last.args.participant.some /\ ~last.args.title.some
    /\ Requested(last.wire, "list") /\ AllAnswered(last.wire)

\* C4: a meeting created by schedule_meeting and fetched with get_meeting_details by
\* the id schedule returned comes back as exactly one meeting with the same title, date
\* and time, and with every participant entry that is a valid address unchanged.
C4_RoundTrip ==
    C4_Case =>
        /\ last.res.success
        /\ Len(last.res.meetings) = 1
        /\ last.res.meetings[1].title = sched.v.title
        /\ last.res.meetings[1].date = sched.v.date
        /\ last.res.meetings[1].time = sched.v.time
        /\ last.res.meetings[1].participants = EmailEntries(sched.v.participants)

\* the participants list of a schedule call, and its entries that are not blank
GivenParticipants(a) == IF a.participants.some THEN a.participants.v ELSE <<>>

Entries(a) == SelectSeq(Map(GivenParticipants(a), Strip), LAMBDA p : p # <<>>)

OtherEntries(a) == SelectSeq(Entries(a), LAMBDA p : ~HasAtAndDot(p))

EndsWith(text, suffix) ==
    /\ Len(suffix) <= Len(text)
    /\ SubSeq(text, Len(text) - Len(suffix) + 1, Len(text)) = suffix

C9_Case == ScheduleCall /\ last.res.success

\* C9: the event a successful schedule_meeting stores has as attendees exactly the
\* participant entries that contain both '@' and '.', in their order, and its
\* description ends with 'Participants: ' followed by every other non-blank entry,
\* joined by ', '; and no schedule call on an empty calendar with a title and a future
\* instant, all requests answered, is rejected whatever its participants are.
C9_ParticipantPartition ==
    /\ C9_Case =>
           LET event == EventWithId(remote, last.res.meeting.google_event_id)
           IN  /\ [i \in 1..Len(event.attendees) |-> event.attendees[i].email]
                      = SelectSeq(Entries(last.args), HasAtAndDot)
               /\ OtherEntries(last.args) # <<>> =>
                      EndsWith(event.description,
                               <<"Participants: ">> \o Join(OtherEntries(last.args), ", "))
               /\ OtherEntries(last.args) = <<>> =>
                      event.description = last.args.description
    /\ (/\ ScheduleCall /\ last.pre = <<>> /\ last.args.title # <<>>
        /\ AskedInstant(last.args) # NoInstant /\ AskedInstant(last.args) > last.at
        /\ AllAnswered(last.wire))
           => last.res.success

C9_Witness ==
    /\ C9_Case
    /\ last.args.participants = Some(Guests)
    /\ EventWithId(remote, last.res.meeting.google_event_id).attendees
           = <<[email |-> AliceMail]>>
    /\ Contains(EventWithId(remote, last.res.meeting.google_event_id).description, "Bob")

\* the first part of the response the loop holds is a call of a tool no handler has
UnknownToolRequested ==
    /\ response # <<>>
    /\ response[1].fc
    /\ response[1].name \notin ToolNames

\* C5: a tool name no handler has yields the result {success: False, error: 'Unknown
\* tool...'}, that result is what is sent to the model as the tool response, and the
\* turn does not end on the request with the error reply - in every state of the
\* adapter.
C5_UnknownToolContinues ==
    /\ (fed.some /\ fed.v.name \notin ToolNames) =>
           fed.v.response.result = [success |-> FALSE,
                                    error |-> <<"Unknown tool: ", fed.v.name>>]
    /\ ~(pc = "done" /\ UnknownToolRequested /\ turnOut = ErrorReply(NotEnabledText))

\* C10: a turn has returned only on a model response that carries no tool-call
\* request.
C10_EndsOnlyWithoutToolCall ==
    pc = "done" => \A i \in 1..Len(response) : ~response[i].fc

\* C11: within a turn the loop is sequential. A pass that goes back to the model has
\* executed exactly one tool, the one named by the first part of the response, and has
\* sent exactly one tool response keyed by that name; tools run and the store changes
\* only in such a pass; a model response arrives only while the loop waits for the
\* model, and the loop waits for the model only after the user's message or a pass.
C11_Sequential ==
    [][/\ (pc = "awaiting" /\ pc' = "calling") =>
              /\ toolsRun' = toolsRun + 1
              /\ response[1].fc
              /\ fed'.some
              /\ fed'.v.name = response[1].name
       /\ toolsRun' # toolsRun =>
              (toolsRun' = 0 \/ (pc = "awaiting" /\ pc' = "calling"))
       /\ (remote' # remote \/ nextId' # nextId) =>
              (pc = "awaiting" /\ toolsRun' = toolsRun + 1)
       /\ response' # response => pc = "calling" \/ pc = "idle"
       /\ (pc = "calling" /\ pc' = "awaiting") =>
              (toolsRun' = toolsRun /\ (toolsRun > 0 => fed.some))
       /\ (pc' = "calling" /\ pc # "calling") => pc \in {"idle", "awaiting"}]_vars

C11_Witness ==
    /\ pc = "calling"
    /\ toolsRun = 2
    /\ fed.some
    /\ fed.v.name = "list_all_meetings"

\* the value an adapter method answers when it has done nothing
Sentinel(op, val) ==
    IF op = "create_event" THEN val = NoId
    ELSE IF op = "get_events" THEN val = <<>>
    ELSE val = FALSE

AdapterCall == last.op \in {"create_event", "update_event", "delete_event", "get_events"}

\* C12: called while the adapter is unauthenticated, create_event answers None,
\* update_event and delete_event answer False and get_events answers the empty list;
\* none of them raises, none sends a request to the provider, and the provider's
\* store stays as it was - whatever the arguments, an unparseable time included.
C12_FailSoft ==
    (AdapterCall /\ last.state = "unauthenticated") =>
        /\ ~last.raised
        /\ Sentinel(last.op, last.val)
        /\ last.wire = <<>>
        /\ remote = last.pre

C12_Witness ==
    /\ AdapterCall
    /\ last.state = "unauthenticated"
    /\ last.op = "update_event"
    /\ last.pre # <<>>
    /\ last.args.meeting.time = NoTime
    /\ last.val = FALSE

\* the stored events the listing of the day of instant T returns that overlap the
\* 60-minute interval starting at T
OverlappingListed(store, T) ==
    {i \in 1..Len(store) :
        /\ StartOf(store[i]) < (T - (T % 1440)) + 1440
        /\ T < StartOf(store[i]) + 60
        /\ StartOf(store[i]) < T + 60}

\* the listing of the conflict check was requested and answered
ListingAnswered(wire) == wire # <<>> /\ wire[1].req = "list" /\ wire[1].o = "ok"

\* the first step of schedule_meeting a call fails at, read off its arguments, the
\* store and the clock; "create" when every check passes
FirstFailingStep(a, store, clock, wire) ==
    IF a.title = <<>> \/ a.date.k = "empty" \/ a.time.k = "empty" THEN "required"
    ELSE IF parse_date(a.date) = NoDate THEN "date"
    ELSE IF parse_time(a.time) = NoTime THEN "time"
    ELSE IF AskedInstant(a) <= clock THEN "future"
    ELSE IF ListingAnswered(wire) /\ OverlappingListed(store, AskedInstant(a)) # {}
    THEN "conflict"
    ELSE "create"

StepError(step, res) ==
    /\ ~res.success
    /\ IF step = "required" THEN res.error = <<"Missing required fields (title, date, time)">>
       ELSE IF step = "date" THEN Head(res.error) = "Invalid date format '"
       ELSE IF step = "time" THEN Head(res.error) = "Invalid time format '"
       ELSE IF step = "future" THEN res.error = <<"Cannot schedule meetings in the past">>
       ELSE Head(res.error) = "Time conflict with '"

\* C13: schedule_meeting checks required fields, date, time, future, conflict in that
\* order and stops at the first that fails: the error is the one of the first failing
\* step even when later steps would fail too, nothing is stored, and create_event is
\* called exactly when every check passed (the conflict check after its listing).
C13_FirstFailureWins ==
    ScheduleCall =>
        LET step == FirstFailingStep(last.args, last.pre, last.at, last.wire)
        IN  IF step = "create"
            THEN /\ last.calls = <<"get_events", "create_event">>
                 /\ last.res.success \/ Head(last.res.error) \in
                        {"Failed to create event in Google Calendar",
                         "Error scheduling meeting: "}
            ELSE /\ StepError(step, last.res)
                 /\ ~Contains(last.calls, "create_event")
                 /\ ~Requested(last.wire, "insert")
                 /\ remote = last.pre
                 /\ step \in {"required", "date", "time", "future"} => last.calls = <<>>

C13_Witness ==
    /\ ScheduleCall
    /\ last.args.title = <<>>
    /\ last.args.date = DDots
    /\ last.args.time = T2500
    /\ last.res.error = <<"Missing required fields (title, date, time)">>

\* a call that is both in the past and in conflict with a stored meeting is refused as
\* being in the past
C13_PastBeforeConflict ==
    /\ ScheduleCall
    /\ AskedInstant(last.args) # NoInstant
    /\ AskedInstant(last.args) <= last.at
    /\ OverlappingListed(last.pre, AskedInstant(last.args)) # {}
    /\ last.res.error = <<"Cannot schedule meetings in the past">>

\* the provider answered an insert request of the call with a new event
InsertAnswered(wire) == \E i \in 1..Len(wire) : wire[i].req = "insert" /\ wire[i].o = "ok"

InsertRefused(wire) == \E i \in 1..Len(wire) : wire[i].req = "insert" /\ wire[i].o # "ok"

\* C14: schedule_meeting answers success=True exactly when the provider's insert gave
\* an event id; the meeting it then returns carries that id, and the store holds one
\* more event, under that id and the meeting's local id. In every other case the
\* result is success=false without a meeting and the store is as it was.
C14_PersistedIffCreated ==
    ScheduleCall =>
        /\ last.res.success <=> InsertAnswered(last.wire)
        /\ last.res.success =>
               /\ "meeting" \in DOMAIN last.res
               /\ last.res.meeting.google_event_id \notin {NoId, ""}
               /\ ~HasEvent(last.pre, last.res.meeting.google_event_id)
               /\ Len(remote) = Len(last.pre) + 1
               /\ remote[Len(remote)].id = last.res.meeting.google_event_id
               /\ remote[Len(remote)].local_id = last.res.meeting.id
               /\ SubSeq(remote, 1, Len(last.pre)) = last.pre
        /\ ~last.res.success =>
               /\ "meeting" \notin DOMAIN last.res
               /\ remote = last.pre

C14_Witness ==
    /\ ScheduleCall
    /\ InsertRefused(last.wire)
    /\ last.res = [success |-> FALSE, error |-> <<"Failed to create event in Google Calendar">>]
    /\ last.pre # <<>>
    /\ remote = last.pre

\* C15's case: list_all_meetings called twice in a row, at the same time, with no
\* schedule, update or delete between the calls, the provider answering both
C15_Case ==
    /\ last.op = "list_all_meetings"
    /\ last.prev.some
    /\ AllAnswered(last.wire)
    /\ AllAnswered(last.prev.v.wire)

WindowFrom(a, clock) ==
    IF a.date.some /\ a.date.v.k # "empty"
    THEN parse_date(a.date.v) - (parse_date(a.date.v) % 1440)
    ELSE clock

WindowTo(a, clock) ==
    IF a.date.some /\ a.date.v.k # "empty" THEN WindowFrom(a, clock) + 1440
    ELSE clock + 30 * 1440

\* the names get_meeting_details reports for the attendees of an event
NamesOf(event) == {AttendeeName(event.attendees[i]) : i \in 1..Len(event.attendees)}

\* the stored event lies in the window of the call and passes every filter supplied
Selected(event, a, clock) ==
    /\ IsoInstant(event.endt) > WindowFrom(a, clock)
    /\ StartOf(event) < WindowTo(a, clock)
    /\ (a.participant.some /\ a.participant.v # <<>>) =>
           \E name \in NamesOf(event) : IsSubstring(Lower(a.participant.v), Lower(name))
    /\ (a.title.some /\ a.title.v # <<>>) =>
           IsSubstring(Lower(a.title.v), Lower(event.summary))
    /\ (a.meeting_id.some /\ a.meeting_id.v # "") =>
           (event.id = a.meeting_id.v \/ event.local_id = a.meeting_id.v)

\* C16's case: a get_meeting_details call without a date or with one that parses, the
\* provider answering, the window holding no more events than one listing returns
C16_Case ==
    /\ GetCall
    /\ (last.args.date.some /\ last.args.date.v.k # "empty") =>
           parse_date(last.args.date.v) # NoDate
    /\ last.wire # <<>> /\ AllAnswered(last.wire)
    /\ Len(last.pre) <= MaxResults

\* C16: get_meeting_details answers success=True with exactly the stored meetings that
\* lie in the queried window (the day of the date, else the 30 days from now) and pass
\* all supplied filters together - participant and title as case-insensitive
\* substrings, meeting_id equal to the remote or the local id - in order of start; an
\* empty selection is answered with success=True too.
C16_ExactlyTheFiltered ==
    C16_Case =>
        /\ last.res.success
        /\ {last.res.meetings[i].google_event_id : i \in 1..Len(last.res.meetings)}
               = {last.pre[i].id : i \in {j \in 1..Len(last.pre) :
                                             Selected(last.pre[j], last.args, last.at)}}
        /\ \A i, j \in 1..Len(last.res.meetings) :
               i # j => last.res.meetings[i].google_event_id
                           # last.res.meetings[j].google_event_id
        /\ \A i, j \in 1..Len(last.res.meetings) :
               i < j => StartOf(EventWithId(last.pre, last.res.meetings[i].google_event_id))
                           <= StartOf(EventWithId(last.pre, last.res.meetings[j].google_event_id))
        /\ remote = last.pre

C16_Witness ==
    /\ C16_Case
    /\ Len(last.pre) = 2
    /\ last.args.date.some
    /\ last.args.participant.some
    /\ last.args.title.some
    /\ ~last.args.meeting_id.some
    /\ Len(last.res.meetings) = 1
    /\ last.res.meetings[1].title = TeamStandup

\* the stored event an update or delete call names, by its remote or its local id
Names(event, id) == event.id = id \/ event.local_id = id

TargetExists(store, id) == \E i \in 1..Len(store) : Names(store[i], id)

Target(store, id) == CHOOSE e \in {store[i] : i \in 1..Len(store)} : Names(e, id)

DateSupplied(a) == a.date.some /\ a.date.v.k # "empty"

TimeSupplied(a) == a.time.some /\ a.time.v.k # "empty"

\* an update whose supplied date and time parse
MovesTo(a) ==
    /\ DateSupplied(a) \/ TimeSupplied(a)
    /\ DateSupplied(a) => parse_date(a.date.v) # NoDate
    /\ TimeSupplied(a) => parse_time(a.time.v) # NoTime

\* the start instant an update asks for: the supplied date and time, the stored ones
\* where none is supplied
NewStart(a, event) ==
    (IF DateSupplied(a) THEN parse_date(a.date.v)
     ELSE StartOf(event) - (StartOf(event) % 1440))
    + (IF TimeSupplied(a) THEN parse_time(a.time.v).h * 60 + parse_time(a.time.v).m
       ELSE StartOf(event) % 1440)

\* the stored events other than `event` whose 60-minute interval overlaps the one
\* starting at T
OthersOverlapping(store, event, T) ==
    {i \in 1..Len(store) :
        /\ store[i].id # event.id
        /\ T < StartOf(store[i]) + 60
        /\ StartOf(store[i]) < T + 60}

\* C17's case: an update of a stored meeting to a start whose interval overlaps the
\* meeting's own current interval and no other meeting's, the provider answering
C17_Case ==
    /\ UpdateCall
    /\ TargetExists(last.pre, last.args.meeting_id)
    /\ MovesTo(last.args)
    /\ AllAnswered(last.wire)
    /\ LET event == Target(last.pre, last.args.meeting_id)
           T == NewStart(last.args, event)
       IN  /\ T # StartOf(event)
           /\ T < StartOf(event) + 60 /\ StartOf(event) < T + 60
           /\ OthersOverlapping(last.pre, event, T) = {}

\* C17: an update never conflicts with itself: an update that moves a meeting to a
\* start whose 60-minute interval overlaps only the meeting's own previous interval
\* passes conflict detection and succeeds, the stored event then starting there.
C17_NoSelfConflict ==
    C17_Case =>
        /\ last.res.success
        /\ StartOf(Target(remote, last.args.meeting_id))
               = NewStart(last.args, Target(last.pre, last.args.meeting_id))

\* the same for the meetings the lookup of update_meeting finds
C17_NoSelfConflictWhenFound ==
    (C17_Case /\ Resolves(last.pre, last.at, last.args.meeting_id)) =>
        /\ last.res.success
        /\ StartOf(Target(remote, last.args.meeting_id))
               = NewStart(last.args, Target(last.pre, last.args.meeting_id))

\* C18's case: an update of a stored meeting to a start whose interval overlaps that
\* of another stored meeting, the provider answering
C18_Case ==
    /\ UpdateCall
    /\ TargetExists(last.pre, last.args.meeting_id)
    /\ MovesTo(last.args)
    /\ AllAnswered(last.wire)
    /\ OthersOverlapping(last.pre, Target(last.pre, last.args.meeting_id),
                         NewStart(last.args, Target(last.pre, last.args.meeting_id))) # {}

\* C18: an update that supplies a date or time whose resulting 60-minute interval
\* overlaps a different stored meeting answers success=false with the conflict error
\* naming such a meeting, does not call update_event, sends no update request and
\* leaves the store as it was.
C18_ConflictRejected ==
    C18_Case =>
        /\ ConflictErrorResult(last.res)
        /\ \E i \in OthersOverlapping(last.pre, Target(last.pre, last.args.meeting_id),
                                       NewStart(last.args,
                                                Target(last.pre, last.args.meeting_id))) :
               SubSeq(last.res.error, 2, Len(last.pre[i].summary) + 1) = last.pre[i].summary
        /\ ~Contains(last.calls, "update_event")
        /\ ~Requested(last.wire, "update")
        /\ remote = last.pre

\* the same for the meetings the lookup finds and the overlaps within one day
C18_ConflictRejectedSameDay ==
    (/\ C18_Case
     /\ Resolves(last.pre, last.at, last.args.meeting_id)
     /\ \E i \in OthersOverlapping(last.pre, Target(last.pre, last.args.meeting_id),
                                    NewStart(last.args,
                                             Target(last.pre, last.args.meeting_id))) :
            StartOf(last.pre[i]) \div 1440
                = NewStart(last.args, Target(last.pre, last.args.meeting_id)) \div 1440)
        => /\ ConflictErrorResult(last.res)
           /\ ~Requested(last.wire, "update")
           /\ remote = last.pre

\* an update to 23:30 is accepted although a meeting starts at 00:00 the next day
C18_MidnightAccepted ==
    /\ C18_Case
    /\ last.res.success
    /\ NewStart(last.args, Target(last.pre, last.args.meeting_id)) % 1440 = 23 * 60 + 30

DeleteCall == last.op = "delete_meeting"

\* C19: delete_meeting(id) on a stored meeting, the provider answering, removes that
\* event and no other and returns success=True with the meeting's snapshot in
\* 'deleted_meeting'; for an id that names no stored meeting (so also after the
\* delete) get_meeting_details(meeting_id=id) returns an empty set and delete_meeting
\* answers success=false, sends no delete request and changes nothing.
C19_DeleteThenGone ==
    /\ (DeleteCall /\ TargetExists(last.pre, last.args.meeting_id)
           /\ AllAnswered(last.wire)) =>
           /\ last.res.success
           /\ last.res.deleted_meeting.google_event_id
                  = Target(last.pre, last.args.meeting_id).id
           /\ last.res.deleted_meeting.title = Target(last.pre, last.args.meeting_id).summary
           /\ ~TargetExists(remote, last.args.meeting_id)
           /\ remote = SelectSeq(last.pre, LAMBDA e : ~Names(e, last.args.meeting_id))
    /\ (GetCall /\ last.args.meeting_id.some /\ ~last.args.date.some
           /\ ~TargetExists(last.pre, last.args.meeting_id.v)
           /\ AllAnswered(last.wire)) =>
           (last.res.success /\ last.res.meetings = <<>>)
    /\ (DeleteCall /\ ~TargetExists(last.pre, last.args.meeting_id)) =>
           /\ ~last.res.success
           /\ ~Requested(last.wire, "delete")
           /\ remote = last.pre

\* the same for the meetings the lookup of delete_meeting finds
C19_DeleteThenGoneWhenFound ==
    /\ (DeleteCall /\ TargetExists(last.pre, last.args.meeting_id)
           /\ Resolves(last.pre, last.at, last.args.meeting_id)
           /\ AllAnswered(last.wire)) =>
           /\ last.res.success
           /\ last.res.deleted_meeting.google_event_id
                  = Target(last.pre, last.args.meeting_id).id
           /\ ~TargetExists(remote, last.args.meeting_id)
           /\ remote = SelectSeq(last.pre, LAMBDA e : ~Names(e, last.args.meeting_id))
    /\ (DeleteCall /\ ~TargetExists(last.pre, last.args.meeting_id)) =>
           /\ ~last.res.success
           /\ ~Requested(last.wire, "delete")
           /\ remote = last.pre

\* the requests of a call that change the provider's store
Mutating(wire) == {i \in 1..Len(wire) : wire[i].req \in {"insert", "update", "delete"}}

\* C20: one invocation of schedule_meeting, update_meeting or delete_meeting, called
\* directly or through the dispatcher, sends at most one mutating request (insert,
\* update or delete), and it is the last request of the invocation; a request the
\* provider did not answer is followed by no request of the same kind; the store
\* changes by one event at most.
C20_AtMostOnce ==
    last.op \in {"schedule_meeting", "update_meeting", "delete_meeting", "_execute_tool"} =>
        /\ Cardinality(Mutating(last.wire)) <= 1
        /\ \A i \in Mutating(last.wire) : i = Len(last.wire)
        /\ \A i, j \in 1..Len(last.wire) :
               (i < j /\ last.wire[i].o # "ok") => last.wire[j].req # last.wire[i].req
        /\ Len(remote) - Len(last.pre) \in {0 - 1, 0, 1}
        /\ (~last.res.success /\ Mutating(last.wire) # {}) => remote = last.pre

C20_Witness ==
    /\ UpdateCall
    /\ last.wire = <<[req |-> "list", o |-> "ok"], [req |-> "list", o |-> "ok"],
                     [req |-> "update", o |-> "http"]>>
    /\ last.res = [success |-> FALSE, error |-> <<"Failed to update event in Google Calendar">>]
    /\ remote = last.pre

\* C21's cases: arguments that fail validation.  A schedule call failing one of the
\* argument checks; a get call with a date text that does not parse; an update call
\* with a date or time text that does not parse, or that moves a stored meeting to a
\* start not after the clock; a dispatch whose arguments do not fit the handler.
C21_ScheduleInvalid ==
    /\ ScheduleCall
    /\ FirstFailingStep(last.args, last.pre, last.at, last.wire)
           \in {"required", "date", "time", "future"}

C21_GetInvalid ==
    /\ GetCall
    /\ last.args.date.some /\ last.args.date.v.k # "empty"
    /\ parse_date(last.args.date.v) = NoDate

C21_UpdateUnparsed ==
    /\ UpdateCall
    /\ \/ DateSupplied(last.args) /\ parse_date(last.args.date.v) = NoDate
       \/ TimeSupplied(last.args) /\ parse_time(last.args.time.v) = NoTime

C21_UpdatePast ==
    /\ UpdateCall
    /\ TargetExists(last.pre, last.args.meeting_id)
    /\ MovesTo(last.args)
    /\ NewStart(last.args, Target(last.pre, last.args.meeting_id)) <= last.at

C21_DispatchUnfit ==
    /\ last.op = "_execute_tool"
    /\ last.args.name \in ToolNames \ {"list_all_meetings"}
    /\ ~last.args.fits

\* C21: a validation failure (bad date or time format, missing required field, past
\* date) in any handler is returned as a result with success=false, for any argument
\* values.
C21_ValidationReturned ==
    (C21_ScheduleInvalid \/ C21_GetInvalid \/ C21_UpdateUnparsed \/ C21_UpdatePast
         \/ C21_DispatchUnfit)
        => /\ Envelope(last.res)
           /\ ~last.res.success

\* the same without the update that asks for a start in the past
C21_DetectedReturned ==
    (C21_ScheduleInvalid \/ C21_GetInvalid \/ C21_UpdateUnparsed \/ C21_DispatchUnfit)
        => /\ Envelope(last.res)
           /\ ~last.res.success

\* an update to a start not after the clock is answered with success
C21_PastUpdateAccepted == C21_UpdatePast /\ last.res.success

\* C22's case: an adapter method sent its request and the provider did not answer it
\* ("http": the client library's HttpError; "exc": any other failure of the request,
\* a transport or credential error)
C22_Case ==
    /\ AdapterCall
    /\ last.wire # <<>>
    /\ last.wire[1].o # "ok"

\* C22: every failure of the remote provider during create_event, update_event,
\* delete_event or get_events is caught inside the adapter and answered with the
\* method's sentinel (None, False, False, empty list); none escapes as an exception.
C22_FailuresCaught ==
    C22_Case =>
        /\ ~last.raised
        /\ Sentinel(last.op, last.val)
        /\ remote = last.pre

\* the same for the failures the client library reports as HttpError
C22_HttpErrorCaught ==
    (C22_Case /\ last.wire[1].o = "http") =>
        /\ ~last.raised
        /\ Sentinel(last.op, last.val)
        /\ remote = last.pre

\* a failure that is no HttpError leaves the adapter as an exception
C22_OtherFailureEscapes == C22_Case /\ last.wire[1].o = "exc" /\ last.raised

\* C23's cases: a schedule call that passed its argument checks, or an update call
\* that found its target and merged a new date or time, whose listing of the day's
\* events failed (an HttpError answered with the empty list, or another exception)
C23_ScheduleCase ==
    /\ ScheduleCall
    /\ last.wire # <<>>
    /\ last.wire[1].req = "list" /\ last.wire[1].o # "ok"

C23_UpdateCase ==
    /\ UpdateCall
    /\ Len(last.wire) >= 2
    /\ last.wire[1].o = "ok"
    /\ last.wire[2].req = "list" /\ last.wire[2].o # "ok"

\* C23: conflict checking is fail-open: when fetching the day's events fails, the
\* check reports no conflict, and schedule_meeting and update_meeting go on to the
\* remote create or update call instead of answering an error.
C23_FailOpen ==
    /\ C23_ScheduleCase =>
           /\ last.calls = <<"get_events", "create_event">>
           /\ Requested(last.wire, "insert")
           /\ last.wire[2].o = "ok" => last.res.success /\ Len(remote) = Len(last.pre) + 1
    /\ C23_UpdateCase =>
           /\ last.calls = <<"get_events", "get_events", "update_event">>
           /\ Requested(last.wire, "update")
           /\ last.wire[3].o = "ok" => last.res.success

\* a meeting is stored over another one because the listing failed
C23_Witness ==
    /\ C23_ScheduleCase
    /\ last.wire[1].o = "exc"
    /\ OverlappingListed(last.pre, AskedInstant(last.args)) # {}
    /\ last.res.success
    /\ Len(remote) = Len(last.pre) + 1

C23_UpdateWitness ==
    /\ C23_UpdateCase
    /\ last.wire[2].o = "http"
    /\ last.res.success

\* the model-side chat history a session's agent holds
ChatSeen(heap, s) == heap[sessionState[s].agent.v]

\* C24's case: a session has run a turn or cleared its chat
C24_Case == last.op \in {"run", "reset_history"}

\* C24: conversations are independent: the turns and the reset_history of one
\* conversation never change the model-side chat history seen by another one.
C24_Independent ==
    C24_Case =>
        \A s \in Sessions \ {last.session} :
            sessionState[s].agent # None => ChatSeen(chats, s) = ChatSeen(last.pre, s)

\* a session's turn is in the chat history of a session that has sent nothing
C24_SharedChat ==
    /\ last.op = "run"
    /\ \E s \in Sessions \ {last.session} :
          /\ sessionState[s].agent # None
          /\ sessionState[s].messages = <<>>
          /\ ChatSeen(chats, s) # <<>>

\* a session's Clear Chat empties the chat history another session has built
C24_SharedReset ==
    /\ last.op = "reset_history"
    /\ \E s \in Sessions \ {last.session} :
          /\ sessionState[s].agent # None
          /\ sessionState[s].messages # <<>>
          /\ ChatSeen(chats, s) = <<>>

\* the pairs of stored events whose 60-minute intervals [start, start+60) overlap
OverlappingPairs(store) ==
    {pair \in (1..Len(store)) \X (1..Len(store)) :
        /\ pair[1] < pair[2]
        /\ StartOf(store[pair[1]]) < StartOf(store[pair[2]]) + 60
        /\ StartOf(store[pair[2]]) < StartOf(store[pair[1]]) + 60}

SameDay(store, pair) ==
    StartOf(store[pair[1]]) \div 1440 = StartOf(store[pair[2]]) \div 1440

\* C25's case: a schedule, update or delete call all of whose provider requests were
\* answered, made on a calendar without overlapping meetings
C25_Case ==
    /\ ScheduleCall \/ UpdateCall \/ DeleteCall
    /\ AllAnswered(last.wire)
    /\ OverlappingPairs(last.pre) = {}

\* C25: non-overlap invariant: with conflict detection enabled and every provider
\* read succeeding, a schedule, update or delete call made on a calendar without
\* overlapping meetings leaves a calendar without overlapping meetings, pairs on
\* either side of midnight included.
C25_NonOverlap == C25_Case => OverlappingPairs(remote) = {}

\* the same for the pairs of meetings that start on one day
C25_NonOverlapWithinDay ==
    C25_Case => \A pair \in OverlappingPairs(remote) : ~SameDay(remote, pair)

\* a meeting stored at 23:30 next to one at 00:00 of the following day
C25_MidnightPair ==
    /\ C25_Case /\ ScheduleCall /\ last.res.success
    /\ \E pair \in OverlappingPairs(remote) : ~SameDay(remote, pair)

\* the stored event a successful schedule call created
Created(store, res) == EventWithId(store, res.meeting.google_event_id)

\* C26: the future-date rule holds for every write: a successful schedule_meeting,
\* and a successful update_meeting that supplies a date or a time, leaves its
\* meeting with a start after the clock at the moment of the call; an update to a
\* past date or time is rejected.
C26_FutureRule ==
    /\ (ScheduleCall /\ last.res.success) =>
           StartOf(Created(remote, last.res)) > last.at
    /\ (UpdateCall /\ last.res.success /\ MovesTo(last.args)) =>
           StartOf(Target(remote, last.args.meeting_id)) > last.at

\* the rule as schedule_meeting keeps it
C26_FutureRuleOfSchedule ==
    (ScheduleCall /\ last.res.success) => StartOf(Created(remote, last.res)) > last.at

\* an update has moved a meeting from a later start to one not after the clock
C26_MovedIntoPast ==
    /\ UpdateCall /\ last.res.success /\ MovesTo(last.args)
    /\ StartOf(Target(last.pre, last.args.meeting_id)) > last.at
    /\ StartOf(Target(remote, last.args.meeting_id)) <= last.at

\* how many times a text holds the token
RECURSIVE Occurrences(_, _)
Occurrences(text, token) ==
    IF text = <<>> THEN 0
    ELSE (IF Head(text) = token THEN 1 ELSE 0) + Occurrences(Tail(text), token)

\* C27's case: a successful update that supplies no participants
C27_Case == UpdateCall /\ last.res.success /\ ~last.args.participants.some

\* C27: after a successful update_meeting that does not supply 'participants' the
\* remote event's attendee list is the one it had before the update and its
\* description has gained no 'Participants: ' text, also for a meeting created with
\* email-address participants.
C27_AttendeesKept ==
    C27_Case =>
        LET id     == last.res.meeting.google_event_id
            before == EventWithId(last.pre, id)
            after  == EventWithId(remote, id)
        IN  /\ after.attendees = before.attendees
            /\ Occurrences(after.description, "Participants: ")
                   <= Occurrences(before.description, "Participants: ")

\* the same for the meetings that have no attendee
C27_KeptWithoutAttendees ==
    (C27_Case /\ EventWithId(last.pre, last.res.meeting.google_event_id).attendees = <<>>) =>
        LET id     == last.res.meeting.google_event_id
            before == EventWithId(last.pre, id)
            after  == EventWithId(remote, id)
        IN  /\ after.attendees = before.attendees
            /\ Occurrences(after.description, "Participants: ")
                   <= Occurrences(before.description, "Participants: ")

\* an update of the title alone has emptied the attendee list and added a
\* 'Participants: ' text
C27_AttendeesDemoted ==
    /\ C27_Case
    /\ last.args.title.some /\ ~last.args.time.some /\ ~last.args.description.some
    /\ LET id == last.res.meeting.google_event_id
       IN  /\ EventWithId(last.pre, id).attendees # <<>>
           /\ EventWithId(remote, id).attendees = <<>>
           /\ Occurrences(EventWithId(remote, id).description, "Participants: ")
                  > Occurrences(EventWithId(last.pre, id).description, "Participants: ")

NotFoundResult(res) == ~res.success /\ Head(res.error) = "Meeting with ID '"

\* C28's case: an update or delete call that names a stored meeting by its local or
\* its remote id, every provider request answered
C28_Case ==
    /\ UpdateCall \/ DeleteCall
    /\ TargetExists(last.pre, last.args.meeting_id)
    /\ AllAnswered(last.wire)

\* C28: a meeting created by schedule_meeting and not deleted is resolved by
\* update_meeting and delete_meeting through the id schedule returned, whenever the
\* provider's reads succeed and however far ahead its date lies: the call never
\* answers 'not found'.
C28_Resolvable == C28_Case => ~NotFoundResult(last.res)

\* the same for the meetings that end after the clock and start within 30 days of it
C28_ResolvableInWindow ==
    (C28_Case /\ Resolves(last.pre, last.at, last.args.meeting_id)) =>
        ~NotFoundResult(last.res)

\* a stored meeting more than 30 days ahead is answered with 'not found'
C28_FarMeetingNotFound ==
    /\ C28_Case
    /\ StartOf(Target(last.pre, last.args.meeting_id)) >= last.at + 30 * 1440
    /\ NotFoundResult(last.res)
    /\ remote = last.pre

\* the function-call parts of a response
FunctionCalls(parts) == {i \in 1..Len(parts) : parts[i].fc}

\* the loop has sent a tool response for the response it holds and asks the model again
AnsweredOne == pc = "calling" /\ fed.some

\* the turn has returned the text of the response it holds
ReturnedText == pc = "done" /\ turnOut = FinalReply(response)

\* C29: every tool-call request of a model response is executed and answered, at
\* whatever position among the parts and however many there are: when the loop goes
\* back to the model after one tool response the response held no other function
\* call, and when the turn returns its text the response holds none.
C29_EveryCallExecuted ==
    /\ AnsweredOne => FunctionCalls(response) = {1}
    /\ ReturnedText => FunctionCalls(response) = {}

\* the loop as it behaves for a response whose only function call is its first part
C29_FirstCallExecuted ==
    /\ AnsweredOne => /\ 1 \in FunctionCalls(response)
                      /\ fed.v.name = response[1].name
    /\ ReturnedText => 1 \notin FunctionCalls(response)

\* a function call after a text part is left unexecuted when the turn returns
C29_CallAfterTextDropped ==
    /\ ReturnedText
    /\ FunctionCalls(response) = {2}
    /\ toolsRun = 0
    /\ turnOut = Hello

\* the second of two function calls is left unexecuted when the model is asked again
C29_SecondCallDropped ==
    /\ AnsweredOne
    /\ FunctionCalls(response) = {1, 2}
    /\ toolsRun = 1

\* the loop holds a response whose first part is a function call, the one it
\* hands to _execute_tool
ToolRequested == response # <<>> /\ response[1].fc

\* the turn has ended on the exception of the handlers' constructor
EndedOnConstructorError == pc = "done" /\ turnOut = ErrorReply(NotEnabledText)

\* C30: _execute_tool never raises: for every tool name, every argument set and every
\* state of the adapter it returns a result envelope with a boolean success, which
\* is what the loop sends to the model; no tool request ends the turn on an exception
\* of the dispatcher.
C30_NeverRaises ==
    /\ fed.some => /\ Envelope(fed.v.response.result)
                   /\ fed.v.response.result.success \in BOOLEAN
    /\ ToolRequested => ~EndedOnConstructorError

\* what _execute_tool returns when it returns
C30_ReturnsEnvelope ==
    fed.some => /\ Envelope(fed.v.response.result)
                /\ fed.v.response.result.success \in BOOLEAN

\* with the adapter not authenticated a request for list_all_meetings ends the turn
\* on the constructor's exception, no tool response sent
C30_RaisedWhenNotEnabled ==
    /\ ToolRequested /\ EndedOnConstructorError
    /\ response[1].name = "list_all_meetings"
    /\ svc = "unauthenticated"
    /\ ~fed.some

====
